---------------------------- MODULE Spec2Model ----------------------------
(***************************************************************************)
(* A model of the IC-7300 Web Serial controller (src/ic7300.js): the CI-V  *)
(* frame codec, the receive loop, the response handler with the debounced  *)
(* Wavelog report, and the DTR/RTS Morse keyer.                            *)
(*                                                                         *)
(* Bytes are the integers 0..255.  A string is the sequence of its         *)
(* characters, a decimal digit standing as its value 0..9 and any other    *)
(* character as its character code.  A JavaScript number that may exceed 2^31 is kept as four       *)
(* base-100000 limbs, least significant first, so that the conversions to  *)
(* and from decimal strings are computed and not assumed.                  *)
(***************************************************************************)
EXTENDS Integers, Sequences, FiniteSets, TLC

(***************************************************************************)
(* Protocol constants                                                      *)
(***************************************************************************)
PREAMBLE == 254
EOM == 253
IC7300_ADDRESS == 148
CONTROLLER_ADDRESS == 224
CMD_READ_FREQ == 3
CMD_READ_MODE == 4
CMD_WRITE_FREQ == 5
CMD_WRITE_MODE == 6
CMD_PTT == 28
CMD_READ_SMETER == 21
CMD_READ_OPERATING_STATUS == 28
CMD_SEND_CW == 23
CMD_ACK == 251
CMD_NAK == 250
SUB_SMETER == 2
SUB_POWER == 17
WAVELOG_DEBOUNCE_MS == 500
BUFFER_LIMIT == 100
BUFFER_KEEP == 50
PTT_SETTLE_MS == 100
DEFAULT_WPM == 20

Byte == 0..255

\* null, where the value is otherwise a record or a sequence; a number that
\* may be null has a number for it: no mode byte and no timer handle.
NULL == <<>>
NO_MODE == -1
NO_TIMER == 0

(***************************************************************************)
(* Bounds of the model                                                     *)
(***************************************************************************)
\* The codec samples hold every limb value up to MaxSmall.
MaxSmall == 12
\* No command is issued once MaxSent frames have been written.
MaxSent == 3
\* No packet is received once MaxReports reports have gone out.
MaxReports == 2
\* Time passes in steps of Quantum ms, or up to the next timeout.
Quantum == 100
\* The history clock stops counting at ClockCap ms.
ClockCap == 700
\* The burst counter stops counting at MaxBurst events.
MaxBurst == 5
\* Short noise and short payloads on the wire have at most this many bytes.
MaxNoise == 2
MaxPayload == 2
\* A read delivers at most MaxChunk bytes, or all that is on the wire.
MaxChunk == 2
\* Calls of sendCWMessage and of stopCW in one run.
MaxSessions == 2
MaxStops == 1
\* Calls of sendCWMessage in the runs that look at one call's keying.
MaxAlone == 1
\* No poll tick comes once MaxTicks ticks have fired.
MaxTicks == 3
\* The payloads handed to buildCommand have at most MaxFrameData bytes.
MaxFrameData == 2
\* At most MaxConnects transports are opened, the first one included.
MaxConnects == 2
\* Line noise comes in at most MaxRuns runs.
MaxRuns == 3
\* The radio sends at most MaxArrivals frames.
MaxArrivals == 2
\* A read that does not deliver all there is delivers PartChunk bytes.
PartChunk == 7
\* Poll ticks in the runs that have the keyer, the button and the radio.
MaxOrderTicks == 1
\* and no user command once MaxOrderIssued calls of sendCommand were made.
MaxOrderIssued == 2
\* No user command or poll tick comes once MaxIssued calls of sendCommand
\* have been made.
MaxIssued == 3

(***************************************************************************)
(* Numbers and decimal strings                                             *)
(***************************************************************************)
Zero == <<0, 0, 0, 0>>

\* The number hi * 10^5 + lo, for hi and lo below 10^5.
Num2(hi, lo) == <<lo, hi, 0, 0>>

\* The five decimal digits of a limb, most significant first.
LimbDigits(l) ==
    << (l \div 10000) % 10, (l \div 1000) % 10, (l \div 100) % 10,
       (l \div 10) % 10, l % 10 >>

\* The value of five decimal digits.
LimbOf(d) == d[1] * 10000 + d[2] * 1000 + d[3] * 100 + d[4] * 10 + d[5]

RECURSIVE StripZeros(_)
StripZeros(s) ==
    IF Len(s) > 1 /\ Head(s) = 0 THEN StripZeros(Tail(s)) ELSE s

\* NaN among the numbers, and as the result of parseInt on one character.
NaN == <<-1, 0, 0, 0>>
NaNDigit == -1

\* Number.prototype.toString() of a non-negative integer, and of NaN.
NumToString(n) ==
    IF n = NaN THEN <<78, 97, 78>>
    ELSE StripZeros(LimbDigits(n[4]) \o LimbDigits(n[3]) \o
                    LimbDigits(n[2]) \o LimbDigits(n[1]))

\* parseInt of one character: its value for a digit, NaN for any other.
ParseDigit(c) == IF c \in 0..9 THEN c ELSE NaNDigit

\* ToInt32, which the operators << and | apply: NaN becomes 0.
ToInt32(x) == IF x = NaNDigit THEN 0 ELSE x

\* String.prototype.padStart(len, '0').
PadStart(s, len) ==
    IF Len(s) >= len THEN s ELSE [i \in 1..(len - Len(s)) |-> 0] \o s

\* parseInt of a string of at most 20 decimal digits.
ParseInt(s) ==
    LET p == PadStart(s, 20)
    IN  << LimbOf(SubSeq(p, 16, 20)), LimbOf(SubSeq(p, 11, 15)),
           LimbOf(SubSeq(p, 6, 10)), LimbOf(SubSeq(p, 1, 5)) >>

\* Number.prototype.toString() of a nibble: one digit, or two from 10 on.
NibbleStr(h) == IF h < 10 THEN <<h>> ELSE <<1, h - 10>>

(***************************************************************************)
(* Frame codec                                                             *)
(***************************************************************************)
\* frequencyToBCD: the digit of freqStr at the 0-based index k.
CharAt(s, k) == s[k + 1]

\* frequencyToBCD with the two digits of each byte in the other order.
frequencyToBCD_Swapped(freqHz) ==
    LET freqStr == PadStart(NumToString(freqHz), 10)
    IN  [ b \in 1..5 |->
            LET i == b - 1
                lowDigit == ParseDigit(CharAt(freqStr, 9 - (i * 2)))
                highDigit == ParseDigit(CharAt(freqStr, 9 - (i * 2) - 1))
            IN  (ToInt32(lowDigit) * 16) + ToInt32(highDigit) ]

frequencyToBCD(freqHz) ==
    LET freqStr == PadStart(NumToString(freqHz), 10)
    IN  [ b \in 1..5 |->
            LET i == b - 1
                lowDigit == ParseDigit(CharAt(freqStr, 9 - (i * 2)))
                highDigit == ParseDigit(CharAt(freqStr, 9 - (i * 2) - 1))
            IN  (ToInt32(highDigit) * 16) + ToInt32(lowDigit) ]

RECURSIVE BcdString(_, _)
BcdString(bcd, i) ==
    IF i < 1 THEN <<>>
    ELSE LET high == (bcd[i] \div 16) % 16
             low == bcd[i] % 16
         IN  NibbleStr(high) \o NibbleStr(low) \o BcdString(bcd, i - 1)

bcdToFrequency(bcd) == ParseInt(BcdString(bcd, Len(bcd)))

buildCommand(cmd, data) ==
    <<PREAMBLE, PREAMBLE, IC7300_ADDRESS, CONTROLLER_ADDRESS, cmd>> \o data
        \o <<EOM>>

\* parseResponse that takes the payload from one byte further on.
parseResponse_Late(data) ==
    IF Len(data) < 6 THEN NULL
    ELSE IF data[1] # PREAMBLE \/ data[2] # PREAMBLE THEN NULL
    ELSE IF data[Len(data)] # EOM THEN NULL
    ELSE [ from |-> data[3], to |-> data[4], cmd |-> data[5],
           payload |-> SubSeq(data, 7, Len(data) - 1) ]

\* parseResponse that does not look at the last byte.
parseResponse_NoEnd(data) ==
    IF Len(data) < 6 THEN NULL
    ELSE IF data[1] # PREAMBLE \/ data[2] # PREAMBLE THEN NULL
    ELSE [ from |-> data[3], to |-> data[4], cmd |-> data[5],
           payload |-> SubSeq(data, 6, Len(data) - 1) ]

\* parseResponse: NULL, or the fields of the packet.
parseResponse(data) ==
    IF Len(data) < 6 THEN NULL
    ELSE IF data[1] # PREAMBLE \/ data[2] # PREAMBLE THEN NULL
    ELSE IF data[Len(data)] # EOM THEN NULL
    ELSE [ from |-> data[3], to |-> data[4], cmd |-> data[5],
           payload |-> SubSeq(data, 6, Len(data) - 1) ]

\* The keys of MODES, as the two upper-case hexadecimal digits of a byte.
HexDigit(n) ==
    CASE n = 10 -> "A" [] n = 11 -> "B" [] n = 12 -> "C"
      [] n = 13 -> "D" [] n = 14 -> "E" [] n = 15 -> "F"
      [] n = 0 -> "0" [] n = 1 -> "1" [] n = 2 -> "2" [] n = 3 -> "3"
      [] n = 4 -> "4" [] n = 5 -> "5" [] n = 6 -> "6" [] n = 7 -> "7"
      [] n = 8 -> "8" [] n = 9 -> "9"

\* The key without padStart: one digit below 16.
ModeCodeHex_NoPad(modeCode) ==
    IF modeCode < 16 THEN HexDigit(modeCode)
    ELSE HexDigit((modeCode \div 16) % 16) \o HexDigit(modeCode % 16)

\* modeCode.toString(16).padStart(2, '0').toUpperCase()
ModeCodeHex(modeCode) ==
    HexDigit((modeCode \div 16) % 16) \o HexDigit(modeCode % 16)

MODES ==
    [ k \in {"00", "01", "02", "03", "04", "05", "07", "08"} |->
        CASE k = "00" -> "LSB" [] k = "01" -> "USB" [] k = "02" -> "AM"
          [] k = "03" -> "CW" [] k = "04" -> "RTTY" [] k = "05" -> "FM"
          [] k = "07" -> "CW-R" [] k = "08" -> "RTTY-R" ]

\* MODES[modeCodeHex] || 'Unknown'
ModeName(modeCode) ==
    LET modeCodeHex == ModeCodeHex(modeCode)
    IN  IF modeCodeHex \in DOMAIN MODES THEN MODES[modeCodeHex]
        ELSE "Unknown"

\* sendToWavelog: modeMap[mode] || 'USB'
WavelogModeName(mode) ==
    CASE mode = 0 -> "LSB" [] mode = 1 -> "USB" [] mode = 2 -> "AM"
      [] mode = 3 -> "CW" [] mode = 4 -> "RTTY" [] mode = 5 -> "FM"
      [] mode = 7 -> "CW" [] mode = 8 -> "RTTY"
      [] OTHER -> "USB"

(***************************************************************************)
(* State Tracker: handleResponse and what it calls.  These operators take  *)
(* the tracker's globals as a record s and return them as the handler      *)
(* leaves them.  Time is kept as the ms each pending timeout still waits.  *)
(***************************************************************************)
\* updateConnectionStatus(false): the meter as shown with nothing read.
BlankMeter == [ label |-> "S-METER (RX)", text |-> <<"---">>, level |-> 0 ]

Min(a, b) == IF a < b THEN a ELSE b

\* updateBargraph(rawValue, mode): the label, the text and the bargraph level.
updateBargraph(rawValue, mode) ==
    IF mode = "rx" THEN
        IF rawValue <= 120 THEN
            \* sUnits = rawValue / 13.3, floored
            LET sUnits == (rawValue * 10) \div 133
            IN  [ label |-> "S-METER (RX)", text |-> <<"S", sUnits>>,
                  level |-> sUnits ]
        ELSE
            \* over = Math.round((rawValue - 120) / 2)
            LET over == (rawValue - 120 + 1) \div 2
            IN  [ label |-> "S-METER (RX)", text |-> <<"S9+", over>>,
                  level |-> 9 + Min(over \div 10, 6) ]
    ELSE
        \* powerWatts = Math.round(rawValue / 2.55); level = floor(/ 6.67)
        LET powerWatts == (rawValue * 200 + 255) \div 510
        IN  [ label |-> "POWER (TX)", text |-> <<powerWatts, "W">>,
              level |-> (powerWatts * 100) \div 667 ]

\* setTimeout's handle: a positive integer no pending timeout carries.
NewTimerId(timeouts) ==
    LET used == { x.id : x \in timeouts }
    IN  CHOOSE i \in 1..(Cardinality(used) + 1) :
            i \notin used /\ \A j \in 1..(i - 1) : j \in used

\* clearTimeout(id)
clearTimeout(timeouts, id) == { x \in timeouts : x.id # id }

\* onRadioStateChanged that leaves the pending timeout in place.
onRadioStateChanged_NoClear(s) ==
    IF s.lastFrequencyHz # NULL /\ s.lastModeCode # NO_MODE THEN
        LET id == NewTimerId(s.timeouts)
        IN  [ s EXCEPT
                !.timeouts = s.timeouts \cup
                    { [ id |-> id, wait |-> WAVELOG_DEBOUNCE_MS,
                        fn |-> "wavelog", proc |-> 0 ] },
                !.wavelogDebounceTimer = id ]
    ELSE s

\* onRadioStateChanged that lets a pending timeout run on.
onRadioStateChanged_KeepPending(s) ==
    IF s.wavelogDebounceTimer # NO_TIMER THEN s
    ELSE onRadioStateChanged_NoClear(s)

\* onRadioStateChanged that arms the timer whatever has been read so far.
onRadioStateChanged_Unread(s) ==
    LET cleared == IF s.wavelogDebounceTimer # NO_TIMER
                   THEN clearTimeout(s.timeouts, s.wavelogDebounceTimer)
                   ELSE s.timeouts
        id == NewTimerId(cleared)
    IN  [ s EXCEPT
            !.timeouts = cleared \cup
                { [ id |-> id, wait |-> WAVELOG_DEBOUNCE_MS,
                    fn |-> "wavelog", proc |-> 0 ] },
            !.wavelogDebounceTimer = id ]

\* onRadioStateChanged: (re)arm the debounce timer once both values are known.
onRadioStateChanged(s) ==
    IF s.lastFrequencyHz # NULL /\ s.lastModeCode # NO_MODE THEN
        LET cleared == IF s.wavelogDebounceTimer # NO_TIMER
                       THEN clearTimeout(s.timeouts, s.wavelogDebounceTimer)
                       ELSE s.timeouts
            id == NewTimerId(cleared)
        IN  [ s EXCEPT
                !.timeouts = cleared \cup
                    { [ id |-> id, wait |-> WAVELOG_DEBOUNCE_MS,
                        fn |-> "wavelog", proc |-> 0 ] },
                !.wavelogDebounceTimer = id ]
    ELSE s

\* History of the last change event (a call of onRadioStateChanged), kept
\* for the statements about the notifier: whether both values were known,
\* how many reports had gone out, the pair the handler left behind, and how
\* many events have come since the debounce timer was last idle.
NoteChange(before, s, nReports) ==
    [ s EXCEPT !.lastChange =
        [ seen |-> TRUE, n |-> nReports,
          known |-> (s.lastFrequencyHz # NULL /\ s.lastModeCode # NO_MODE),
          frequency |-> s.lastFrequencyHz, mode |-> s.lastModeCode,
          burst |-> IF before.wavelogDebounceTimer # NO_TIMER
                    THEN Min(before.lastChange.burst + 1, MaxBurst)
                    ELSE 1 ],
      !.sinceChange = 0 ]

\* The frequency response that calls onRadioStateChanged on the first
\* frequency too.
HandleFreq_FirstToo(s, response, nReports) ==
    IF response.cmd = CMD_READ_FREQ /\ Len(response.payload) >= 5 THEN
        LET freqHz == bcdToFrequency(SubSeq(response.payload, 1, 5))
            changed == s.lastFrequencyHz # freqHz
            s1 == [ s EXCEPT !.freqDisplay = freqHz,
                             !.logLast = "Frequency" ]
            s2 == IF changed THEN onRadioStateChanged(s1) ELSE s1
            s3 == [ s2 EXCEPT !.lastFrequencyHz = freqHz ]
        IN  IF changed THEN NoteChange(s, s3, nReports) ELSE s3
    ELSE s

\* handleResponse, frequency response
HandleFreq(s, response, nReports) ==
    IF response.cmd = CMD_READ_FREQ /\ Len(response.payload) >= 5 THEN
        LET freqHz == bcdToFrequency(SubSeq(response.payload, 1, 5))
            changed == s.lastFrequencyHz # NULL /\ s.lastFrequencyHz # freqHz
            s1 == [ s EXCEPT !.freqDisplay = freqHz,
                             !.logLast = "Frequency" ]
            s2 == IF changed THEN onRadioStateChanged(s1) ELSE s1
            s3 == [ s2 EXCEPT !.lastFrequencyHz = freqHz ]
        IN  IF changed THEN NoteChange(s, s3, nReports) ELSE s3
    ELSE s

\* The mode taken from the first payload byte of any response.
HandleMode_AnyCmd(s, response, nReports) ==
    IF Len(response.payload) >= 1 THEN
        LET modeCode == response.payload[1]
            modeName == ModeName(modeCode)
            changed == s.lastModeCode # NO_MODE /\ s.lastModeCode # modeCode
            s1 == [ s EXCEPT !.modeDisplay = modeName, !.logLast = "Mode" ]
            s2 == IF changed THEN onRadioStateChanged(s1) ELSE s1
            s3 == [ s2 EXCEPT !.lastModeCode = modeCode ]
        IN  IF changed THEN NoteChange(s, s3, nReports) ELSE s3
    ELSE s

\* handleResponse, mode response
HandleMode(s, response, nReports) ==
    IF response.cmd = CMD_READ_MODE /\ Len(response.payload) >= 1 THEN
        LET modeCode == response.payload[1]
            modeName == ModeName(modeCode)
            changed == s.lastModeCode # NO_MODE /\ s.lastModeCode # modeCode
            s1 == [ s EXCEPT !.modeDisplay = modeName, !.logLast = "Mode" ]
            s2 == IF changed THEN onRadioStateChanged(s1) ELSE s1
            s3 == [ s2 EXCEPT !.lastModeCode = modeCode ]
        IN  IF changed THEN NoteChange(s, s3, nReports) ELSE s3
    ELSE s

\* The meter response shown whatever the PTT flag is.
HandleMeter_NoPttCheck(s, response) ==
    IF response.cmd = CMD_READ_SMETER /\ Len(response.payload) >= 3 THEN
        LET subCmd == response.payload[1]
            value == (response.payload[2] * 256) + response.payload[3]
        IN  IF subCmd = SUB_SMETER
            THEN [ s EXCEPT !.meter = updateBargraph(value, "rx") ]
            ELSE IF subCmd = SUB_POWER
            THEN [ s EXCEPT !.meter = updateBargraph(value, "tx") ]
            ELSE s
    ELSE s

\* handleResponse, S-meter / power meter response
HandleMeter(s, response) ==
    IF response.cmd = CMD_READ_SMETER /\ Len(response.payload) >= 3 THEN
        LET subCmd == response.payload[1]
            valueHigh == response.payload[2]
            valueLow == response.payload[3]
            value == (valueHigh * 256) + valueLow
        IN  IF subCmd = SUB_SMETER THEN
                IF ~s.pttActive
                THEN [ s EXCEPT !.meter = updateBargraph(value, "rx") ]
                ELSE s
            ELSE IF subCmd = SUB_POWER THEN
                IF s.pttActive
                THEN [ s EXCEPT !.meter = updateBargraph(value, "tx") ]
                ELSE s
            ELSE s
    ELSE s

\* The status response taken whatever its sub-command is.
HandleStatus_AnySub(s, response) ==
    IF response.cmd = CMD_READ_OPERATING_STATUS
       /\ Len(response.payload) >= 2 THEN
        LET newPttState == (response.payload[2] = 1)
        IN  IF s.pttActive # newPttState
            THEN [ s EXCEPT
                    !.pttActive = newPttState,
                    !.logLast = IF newPttState
                                THEN "RX -> TX (detected)"
                                ELSE "TX -> RX" ]
            ELSE s
    ELSE s

\* handleResponse, operating status response
HandleStatus(s, response) ==
    IF response.cmd = CMD_READ_OPERATING_STATUS
       /\ Len(response.payload) >= 2 THEN
        LET subCmd == response.payload[1]
        IN  IF subCmd = 0 THEN
                LET txState == response.payload[2]
                    newPttState == (txState = 1)
                IN  IF s.pttActive # newPttState
                    THEN [ s EXCEPT
                            !.pttActive = newPttState,
                            !.logLast = IF newPttState
                                        THEN "RX -> TX (detected)"
                                        ELSE "TX -> RX" ]
                    ELSE s
            ELSE s
    ELSE s

handleResponse(s, data, nReports) ==
    LET s0 == [ s EXCEPT !.logLast = "RX" ]
        response == parseResponse(data)
    IN  IF response = NULL
        THEN [ s0 EXCEPT !.logLast = "Invalid response packet" ]
        ELSE IF response.cmd = CMD_ACK
        THEN [ s0 EXCEPT !.logLast = "Command acknowledged" ]
        ELSE IF response.cmd = CMD_NAK
        THEN [ s0 EXCEPT !.logLast = "Command rejected (NAK)" ]
        ELSE LET s1 == HandleFreq(s0, response, nReports)
                 s2 == HandleMode(s1, response, nReports)
                 s3 == HandleMeter(s2, response)
             IN  HandleStatus(s3, response)

(***************************************************************************)
(* State                                                                   *)
(***************************************************************************)
VARIABLES
    codecPc,        \* position of the codec round trip
    codecHz,        \* the frequency handed to frequencyToBCD
    codecBcd,       \* its result
    codecBack,      \* bcdToFrequency of that result
    lastFrequencyHz,        \* NULL or the last frequency read
    lastModeCode,           \* NULL or the last mode byte read
    pttActive,              \* the PTT flag
    freqDisplay,            \* the frequency shown, "blank" before any
    modeDisplay,            \* the mode name shown
    meter,                  \* the meter label, text and bargraph level
    logLast,                \* the newest entry of the activity log
    wavelogDebounceTimer,   \* NULL or the handle of the debounce timeout
    timeouts,               \* the pending setTimeout callbacks
    wavelog,                \* WAVELOG_ENABLED, WAVELOG_URL, WAVELOG_API_KEY
    reports,                \* the POSTs made to Wavelog, oldest first
    lastChange,             \* history: the last change event
    sinceChange,            \* history: ms since that event, capped
    isConnected,            \* the connection flag
    writer,                 \* TRUE when a writer is held
    sent,                   \* the frames written to the transport, in order
    pttCalls,               \* togglePTT calls awaiting their write, in order
    wire,                   \* the bytes the port has still to deliver
    buffer,                 \* readLoop's buffer
    packets,                \* history: the packets readLoop handed on
    fedNoise,               \* history: the noise put on the wire
    fedFrame,               \* history: the frame put on the wire after it
    rxData,                 \* the bytes last handed to handleResponse
    lastOp,                 \* the operation that ran last
    port,                   \* the serial port is held (not null)
    portLost,               \* the device is gone: setSignals rejects
    cwKeying,               \* the keyer's flag
    keyLine,                \* the level of the key line (DTR or RTS)
    toneLeft,               \* what is left of the tone last keyed, in ms
    cw,                     \* the calls of sendCWMessage, by number
    stops,                  \* the calls of stopCW, by number
    issued,                 \* history: the calls of sendCommand, in order
    freqInput,              \* the frequency field as setFrequency read it
    statusPollInterval,     \* NO_TIMER or the handle of the poll interval
    reading,                \* TRUE while readLoop awaits reader.read()
    readError,              \* history: readLoop has caught a read error
    ticks,                  \* history: the poll ticks, with the PTT flag then
    arrived,                \* history: the frames the radio has sent
    fetches,                \* the POSTs to Wavelog not yet answered
    reader,                 \* TRUE while reader holds the port's reader
    closing,                \* disconnect: the await it is at, its steps so far
    framePc,                \* position of the frame round trip
    frameCmd,               \* the command handed to buildCommand
    frameData,              \* the data handed to buildCommand
    frameBytes,             \* its result
    frameParsed             \* parseResponse of that result

codecVars == <<codecPc, codecHz, codecBcd, codecBack>>

trackerVars ==
    <<lastFrequencyHz, lastModeCode, pttActive, freqDisplay, modeDisplay,
      meter, logLast, wavelogDebounceTimer, timeouts, lastChange,
      sinceChange>>

radioState == <<lastFrequencyHz, lastModeCode, pttActive, meter>>

linkVars == <<isConnected, writer, sent, pttCalls, issued>>

rxVars == <<wire, buffer, packets, fedNoise, fedFrame>>

cwVars == <<port, portLost, cwKeying, keyLine, toneLeft, cw, stops>>

frameVars == <<framePc, frameCmd, frameData, frameBytes, frameParsed>>

pollVars == <<freqInput, statusPollInterval, reading, readError, ticks>>

closeVars == <<reader, closing>>

sessionVars == <<pollVars, arrived, fetches, closeVars, frameVars>>

vars ==
    <<codecVars, trackerVars, wavelog, reports, linkVars, rxVars, cwVars,
      sessionVars, rxData, lastOp>>

\* The tracker's globals as the record the handler operators work on.
Tracker ==
    [ lastFrequencyHz |-> lastFrequencyHz, lastModeCode |-> lastModeCode,
      pttActive |-> pttActive, freqDisplay |-> freqDisplay,
      modeDisplay |-> modeDisplay, meter |-> meter, logLast |-> logLast,
      wavelogDebounceTimer |-> wavelogDebounceTimer, timeouts |-> timeouts,
      lastChange |-> lastChange, sinceChange |-> sinceChange ]

SetTracker(s) ==
    /\ lastFrequencyHz' = s.lastFrequencyHz
    /\ lastModeCode' = s.lastModeCode
    /\ pttActive' = s.pttActive
    /\ freqDisplay' = s.freqDisplay
    /\ modeDisplay' = s.modeDisplay
    /\ meter' = s.meter
    /\ logLast' = s.logLast
    /\ wavelogDebounceTimer' = s.wavelogDebounceTimer
    /\ timeouts' = s.timeouts
    /\ lastChange' = s.lastChange
    /\ sinceChange' = s.sinceChange

(***************************************************************************)
(* Initial states                                                          *)
(***************************************************************************)
CodecIdle ==
    /\ codecPc = "start"
    /\ codecHz = Zero
    /\ codecBcd = <<>>
    /\ codecBack = Zero

\* The globals as the script leaves them when loaded, and the page as
\* updateConnectionStatus shows it.
TrackerLoaded ==
    /\ lastFrequencyHz = NULL
    /\ lastModeCode = NO_MODE
    /\ pttActive = FALSE
    /\ freqDisplay = "blank"
    /\ modeDisplay = "---"
    /\ meter = BlankMeter
    /\ logLast = "none"
    /\ wavelogDebounceTimer = NO_TIMER
    /\ reports = <<>>
    /\ lastChange = [ seen |-> FALSE, n |-> 0, known |-> FALSE,
                      frequency |-> NULL, mode |-> NO_MODE, burst |-> 0 ]
    /\ sinceChange = 0
    /\ rxData = <<>>
    /\ lastOp = "none"

\* The same with no timeout pending.
TrackerInit == TrackerLoaded /\ timeouts = {}

\* The settings a user can have saved: telemetry off, on without a key,
\* on and complete.
WavelogDefault == [ enabled |-> FALSE, url |-> "", key |-> "" ]

WavelogSettings ==
    { WavelogDefault,
      [ enabled |-> FALSE, url |-> "https://log.example", key |-> "k" ],
      [ enabled |-> TRUE, url |-> "https://log.example", key |-> "" ],
      [ enabled |-> TRUE, url |-> "", key |-> "k" ],
      [ enabled |-> TRUE, url |-> "https://log.example", key |-> "k" ] }

\* A call of sendCWMessage that has not been made.
NoSession ==
    [ pc |-> "idle", message |-> <<>>, wpm |-> 0, i |-> 0, j |-> 0,
      keyed |-> <<>>, cancelled |-> FALSE, overlapped |-> FALSE,
      onSent |-> FALSE, offSent |-> FALSE, loweredAtExit |-> FALSE,
      outcome |-> "none" ]

\* The keyer at rest, the port open and the device there.
CwIdle ==
    /\ port = TRUE
    /\ portLost = FALSE
    /\ cwKeying = FALSE
    /\ keyLine = FALSE
    /\ toneLeft = 0
    /\ cw = [ s \in 1..MaxSessions |-> NoSession ]
    /\ stops = [ p \in 1..MaxStops |-> "idle" ]

\* Nothing on the wire, readLoop's buffer as it starts.
RxIdle ==
    /\ wire = <<>>
    /\ buffer = <<>>
    /\ packets = <<>>
    /\ fedNoise = <<>>
    /\ fedFrame = <<>>

\* A session as connect() leaves it: port open, writer held.
LinkInit ==
    /\ isConnected = TRUE
    /\ writer = TRUE
    /\ sent = <<>>
    /\ pttCalls = <<>>
    /\ issued = <<>>

\* No frame has been built.
FrameIdle ==
    /\ framePc = "start"
    /\ frameCmd = 0
    /\ frameData = <<>>
    /\ frameBytes = <<>>
    /\ frameParsed = NULL

\* The rest of the session: readLoop reading, the frequency field empty,
\* nothing received.
SessionPolls ==
    /\ freqInput = <<>>
    /\ reading = TRUE
    /\ readError = FALSE
    /\ ticks = <<>>
    /\ arrived = <<>>
    /\ fetches = 0
    /\ reader = TRUE
    /\ closing = [ pc |-> "idle", done |-> <<>>, opened |-> 1 ]

SessionLoaded == SessionPolls /\ FrameIdle

\* The same with the poll interval left out.
SessionIdle == SessionLoaded /\ statusPollInterval = NO_TIMER

(***************************************************************************)
(* sendCommand and togglePTT                                               *)
(***************************************************************************)
\* sendCommand without its guard.
CanSend_Always == TRUE

\* sendCommand's guard: a writer and a connection.
CanSend == writer /\ isConnected

\* How a call of sendCommand ends: refused by the guard, the write rejected
\* (the device is gone, or the writer is being closed) and caught, or the
\* frame written.
SendOutcome ==
    IF ~CanSend THEN "notConnected"
    ELSE IF portLost \/ closing.pc = "writer.close" THEN "sendError"
    ELSE "written"

\* A writer that puts the frame ahead of those written before.
Transmit_Front(q, cmd, data) ==
    IF SendOutcome = "written" THEN <<buildCommand(cmd, data)>> \o q ELSE q

\* sendCommand up to its await: the frame built and handed to the writer in
\* one write, as the call is made.
Transmit(q, cmd, data) ==
    IF SendOutcome = "written" THEN Append(q, buildCommand(cmd, data)) ELSE q

\* The call of sendCommand noted: who made it (for a poll query, at which
\* tick) and how it ended.
Issue(h, cmd, data, by, tick) ==
    Append(h, [ cmd |-> cmd, data |-> data, by |-> by, tick |-> tick,
                outcome |-> SendOutcome ])

\* togglePTT up to the await of sendCommand: the branch is taken on the
\* flag as it is now; the flag is set when the write has completed.
TogglePTTWithin(n) ==
    /\ Len(issued) < n
    /\ LET want == ~pttActive
           data == <<0, IF want THEN 1 ELSE 0>>
       IN  /\ sent' = Transmit(sent, CMD_PTT, data)
           /\ issued' = Issue(issued, CMD_PTT, data, "togglePTT", 0)
           /\ pttCalls' = Append(pttCalls, want)
    /\ lastOp' = "togglePTT"
    /\ UNCHANGED <<codecVars, sessionVars, rxVars, cwVars, trackerVars, wavelog, reports, isConnected,
                   writer, rxData>>

TogglePTT == TogglePTTWithin(MaxSent)

\* togglePTT after the await: pttActive = true (or false), updatePTTButton.
TogglePTTDone ==
    /\ pttCalls # <<>>
    /\ pttActive' = Head(pttCalls)
    /\ pttCalls' = Tail(pttCalls)
    /\ logLast' = IF Head(pttCalls) THEN "PTT activated" ELSE "PTT released"
    /\ lastOp' = "togglePTT"
    /\ UNCHANGED <<codecVars, sessionVars, rxVars, cwVars, lastFrequencyHz, lastModeCode, freqDisplay,
                   modeDisplay, meter, wavelogDebounceTimer, timeouts,
                   lastChange, sinceChange, wavelog, reports, isConnected,
                   writer, sent, issued, rxData>>

(***************************************************************************)
(* setFrequency, and the queries that timers make                          *)
(***************************************************************************)
MIN_FREQ_HZ == 1000000
MAX_FREQ_HZ == 60000000
READBACK_MS == 200
MODE_QUERY_DELAY_MS == 100

\* The number of digits of s from position k on, up to the first character
\* that is not a digit.
RECURSIVE DigitRun(_, _)
DigitRun(s, k) ==
    IF k <= Len(s) /\ s[k] \in 0..9 THEN 1 + DigitRun(s, k + 1) ELSE 0

\* The value of a string of digits.
RECURSIVE DigitsValue(_)
DigitsValue(d) ==
    IF d = <<>> THEN 0
    ELSE DigitsValue(SubSeq(d, 1, Len(d) - 1)) * 10 + d[Len(d)]

\* parseFloat of an unsigned decimal: the longest prefix "digits", "digits."
\* or "digits.digits" (the first digits may be missing before a fraction),
\* as its integer and fraction digits, or NaN when there is no such prefix.
parseFloat(s) ==
    LET n == DigitRun(s, 1)
        m == IF n < Len(s) /\ s[n + 1] = 46 THEN DigitRun(s, n + 2) ELSE 0
    IN  IF n = 0 /\ m = 0
        THEN [ nan |-> TRUE, int |-> <<>>, frac |-> <<>> ]
        ELSE [ nan |-> FALSE, int |-> SubSeq(s, 1, n),
               frac |-> SubSeq(s, n + 2, n + 1 + m) ]

\* Math.round(freqMHz * 1000000), in decimal arithmetic: -1 stands for NaN.
RoundHz(f) ==
    IF f.nan THEN -1
    ELSE LET six == [ i \in 1..6 |->
                        IF i <= Len(f.frac) THEN f.frac[i] ELSE 0 ]
             up == IF Len(f.frac) >= 7 /\ f.frac[7] >= 5 THEN 1 ELSE 0
         IN  DigitsValue(f.int) * 1000000 + DigitsValue(six) + up

\* The number freqHz as frequencyToBCD takes it.
HzNumber(freqHz) ==
    IF freqHz = -1 THEN NaN ELSE Num2(freqHz \div 100000, freqHz % 100000)

\* The range check of setFrequency: both comparisons are false for NaN.
OutOfRange(freqHz) ==
    freqHz # -1 /\ (freqHz < MIN_FREQ_HZ \/ freqHz > MAX_FREQ_HZ)

\* setFrequency with the field holding input, the await of sendCommand
\* included: the command sent and the read-back armed, or an error logged.
SetFrequency(input) ==
    /\ freqInput' = input
    /\ IF input = <<>>
       THEN /\ logLast' = "Please enter a frequency"
            /\ UNCHANGED <<sent, issued, timeouts>>
       ELSE LET freqHz == RoundHz(parseFloat(input))
            IN  IF OutOfRange(freqHz)
                THEN /\ logLast' = "Frequency out of range (1-60 MHz)"
                     /\ UNCHANGED <<sent, issued, timeouts>>
                ELSE LET bcd == frequencyToBCD(HzNumber(freqHz))
                     IN  /\ sent' = Transmit(sent, CMD_WRITE_FREQ, bcd)
                         /\ issued' = Issue(issued, CMD_WRITE_FREQ, bcd,
                                            "setFrequency", 0)
                         /\ logLast' = "Setting frequency"
                         /\ timeouts' = timeouts \cup
                                { [ id |-> NewTimerId(timeouts),
                                    wait |-> READBACK_MS,
                                    fn |-> "readFrequency", proc |-> 0 ] }
    /\ lastOp' = "setFrequency"
    /\ UNCHANGED <<codecVars, rxVars, cwVars, lastFrequencyHz, lastModeCode,
                   pttActive, freqDisplay, modeDisplay, meter,
                   wavelogDebounceTimer, lastChange, sinceChange, wavelog,
                   reports, isConnected, writer, pttCalls, statusPollInterval,
                   reading, readError, ticks, arrived, fetches, closeVars,
                   frameVars,
                   rxData>>

\* readFrequency, readMode, readSMeter and readPowerMeter: the query each
\* hands to sendCommand.
Queries ==
    [ fn \in { "readFrequency", "readMode", "readSMeter", "readPowerMeter" } |->
        CASE fn = "readFrequency" -> [ cmd |-> CMD_READ_FREQ, data |-> <<>> ]
          [] fn = "readMode" -> [ cmd |-> CMD_READ_MODE, data |-> <<>> ]
          [] fn = "readSMeter" ->
                [ cmd |-> CMD_READ_SMETER, data |-> <<SUB_SMETER>> ]
          [] fn = "readPowerMeter" ->
                [ cmd |-> CMD_READ_SMETER, data |-> <<SUB_POWER>> ] ]

\* A timeout that makes one of these queries; the one of the occasional
\* frequency query arms the mode query as well.
QueryTimer ==
    /\ \E x \in timeouts :
        /\ x.wait = 0
        /\ x.fn \in DOMAIN Queries \cup {"readFrequencyAndMode"}
        /\ LET fn == IF x.fn = "readFrequencyAndMode" THEN "readFrequency"
                     ELSE x.fn
               rest == timeouts \ {x}
           IN  /\ sent' = Transmit(sent, Queries[fn].cmd, Queries[fn].data)
               /\ issued' = Issue(issued, Queries[fn].cmd, Queries[fn].data,
                                  fn, x.proc)
               /\ timeouts' =
                    IF x.fn = "readFrequencyAndMode"
                    THEN rest \cup { [ id |-> NewTimerId(rest), wait |-> MODE_QUERY_DELAY_MS,
                                       fn |-> "readMode", proc |-> x.proc ] }
                    ELSE rest
    /\ lastOp' = "queryTimer"
    /\ UNCHANGED <<codecVars, sessionVars, rxVars, cwVars, lastFrequencyHz,
                   lastModeCode, pttActive, freqDisplay, modeDisplay, meter,
                   logLast, wavelogDebounceTimer, lastChange, sinceChange,
                   wavelog, reports, isConnected, writer, pttCalls, rxData>>

(***************************************************************************)
(* startStatusPolling: the interval and its ticks                          *)
(***************************************************************************)
POLL_PERIOD_MS == 300
POLL_PACING_MS == 100
OCCASIONAL_DELAY_MS == 200

\* startStatusPolling has run: the interval is pending under handle 1.
PollingStarted ==
    /\ statusPollInterval = 1
    /\ timeouts = { [ id |-> 1, wait |-> POLL_PERIOD_MS, fn |-> "pollTick",
                      proc |-> 0 ] }

\* The timeout of the meter query that does not go with the PTT flag.
MeterTimer_Other(ptt, tick, pending) ==
    [ id |-> NewTimerId(pending), wait |-> POLL_PACING_MS,
      fn |-> IF ptt THEN "readSMeter" ELSE "readPowerMeter", proc |-> tick ]

\* The timeout of one meter query, chosen by the PTT flag as it is at the
\* tick.
MeterTimer(ptt, tick, pending) ==
    [ id |-> NewTimerId(pending), wait |-> POLL_PACING_MS,
      fn |-> IF ptt THEN "readPowerMeter" ELSE "readSMeter", proc |-> tick ]

\* The interval's callback: the status query at once, the timeout of one
\* meter query, and with Math.random() < 0.15 the timeout of the frequency
\* and mode queries. The interval stays pending.
PollTickWithin(n) ==
    /\ Len(ticks) < n
    /\ \E x \in timeouts :
        /\ x.wait = 0
        /\ x.fn = "pollTick"
        /\ LET again == (timeouts \ {x}) \cup
                            { [ x EXCEPT !.wait = POLL_PERIOD_MS ] }
               tick == Len(ticks) + 1
           IN  IF ~isConnected
               THEN timeouts' = again /\ UNCHANGED <<sent, issued>>
               ELSE \E occasional \in BOOLEAN :
                    LET t1 == again \cup { MeterTimer(pttActive, tick, again) }
                        t2 == IF occasional
                              THEN t1 \cup
                                   { [ id |-> NewTimerId(t1),
                                       wait |-> OCCASIONAL_DELAY_MS,
                                       fn |-> "readFrequencyAndMode",
                                       proc |-> tick ] }
                              ELSE t1
                    IN  /\ sent' = Transmit(sent, CMD_READ_OPERATING_STATUS,
                                            <<0>>)
                        /\ issued' = Issue(issued, CMD_READ_OPERATING_STATUS,
                                           <<0>>, "readOperatingStatus", tick)
                        /\ timeouts' = t2
    /\ ticks' = Append(ticks, [ ptt |-> pttActive, connected |-> isConnected ])
    /\ lastOp' = "pollTick"
    /\ UNCHANGED <<codecVars, rxVars, cwVars, lastFrequencyHz, lastModeCode,
                   pttActive, freqDisplay, modeDisplay, meter, logLast,
                   wavelogDebounceTimer, lastChange, sinceChange, wavelog,
                   reports, isConnected, writer, pttCalls, freqInput,
                   statusPollInterval, reading, readError, arrived, fetches,
                   closeVars,
                   frameVars,
                   rxData>>

PollTick == PollTickWithin(MaxTicks)

\* readLoop's catch: reader.read() was rejected, the error is logged and the
\* loop is over.
ReadError ==
    /\ reading
    /\ portLost
    /\ reading' = FALSE
    /\ readError' = TRUE
    /\ logLast' = "Read error"
    /\ lastOp' = "readError"
    /\ UNCHANGED <<codecVars, rxVars, cwVars, lastFrequencyHz, lastModeCode,
                   pttActive, freqDisplay, modeDisplay, meter,
                   wavelogDebounceTimer, timeouts, lastChange, sinceChange,
                   wavelog, reports, linkVars, freqInput, statusPollInterval,
                   ticks, arrived, fetches, closeVars, frameVars, rxData>>

(***************************************************************************)
(* handleResponse on a received packet                                     *)
(***************************************************************************)
Receive(data) ==
    /\ SetTracker(handleResponse(Tracker, data, Len(reports)))
    /\ rxData' = data
    /\ lastOp' = "handleResponse"
    /\ UNCHANGED <<codecVars, sessionVars, rxVars, cwVars, wavelog, reports, linkVars>>

\* A response of the radio to the controller.
Response(cmd, payload) ==
    <<PREAMBLE, PREAMBLE, CONTROLLER_ADDRESS, IC7300_ADDRESS, cmd>>
        \o payload \o <<EOM>>

(***************************************************************************)
(* readLoop                                                                *)
(***************************************************************************)
Max(S) == CHOOSE x \in S : \A y \in S : y <= x

\* The scan that takes the first marker in the buffer, not the nearest.
FindStart_First(buf) ==
    LET found == { i \in 1..(Len(buf) - 2) :
                      buf[i] = PREAMBLE /\ buf[i + 1] = PREAMBLE }
    IN  IF found = {} THEN 0 ELSE CHOOSE i \in found : \A j \in found : i <= j

\* The backward scan for the start of the packet: the position of the
\* nearest FE FE before the last byte, counted from 1, or 0 for none.
FindStart(buf) ==
    LET found == { i \in 1..(Len(buf) - 2) :
                      buf[i] = PREAMBLE /\ buf[i + 1] = PREAMBLE }
    IN  IF found = {} THEN 0 ELSE Max(found)

\* The for loop over the bytes of a chunk: acc holds the buffer, the
\* tracker's globals, and the packets handed on. Bytes that do not pass the
\* test "byte === 0xFD && buffer.length >= 6" are only pushed, so the loop is
\* taken from one byte that passes it to the next.
RECURSIVE FeedBytes(_, _, _)
FeedBytes(acc, value, nReports) ==
    LET ends == { k \in 1..Len(value) :
                     value[k] = EOM /\ Len(acc.buffer) + k >= 6 }
    IN  IF ends = {} THEN [ acc EXCEPT !.buffer = acc.buffer \o value ]
        ELSE
            LET k == CHOOSE i \in ends : \A j \in ends : i <= j
                pushed == acc.buffer \o SubSeq(value, 1, k)
                startIdx == FindStart(pushed)
                packet == SubSeq(pushed, startIdx, Len(pushed))
                next == IF startIdx >= 1
                        THEN [ buffer |-> SubSeq(pushed, 1, startIdx - 1),
                               s |-> handleResponse(acc.s, packet, nReports),
                               out |-> Append(acc.out, packet) ]
                        ELSE [ acc EXCEPT !.buffer = pushed ]
            IN  FeedBytes(next, SubSeq(value, k + 1, Len(value)), nReports)

\* A loop that never cuts the buffer.
Truncate_Never(buf) == buf

\* "Prevent buffer from growing too large"
Truncate(buf) ==
    IF Len(buf) > BUFFER_LIMIT
    THEN SubSeq(buf, Len(buf) - BUFFER_KEEP + 1, Len(buf))
    ELSE buf

\* One turn of the while loop: reader.read() delivers the next n bytes.
\* The loop has ended once a read was rejected or the reader cancelled.
ReadChunk(n) ==
    /\ reading
    /\ n >= 1
    /\ n <= Len(wire)
    /\ LET value == SubSeq(wire, 1, n)
           acc == FeedBytes([ buffer |-> buffer, s |-> Tracker, out |-> <<>> ],
                            value, Len(reports))
       IN  /\ buffer' = Truncate(acc.buffer)
           /\ SetTracker(acc.s)
           /\ packets' = packets \o acc.out
           /\ rxData' = IF acc.out = <<>> THEN rxData
                        ELSE acc.out[Len(acc.out)]
    /\ wire' = SubSeq(wire, n + 1, Len(wire))
    /\ lastOp' = "readLoop"
    /\ UNCHANGED <<codecVars, sessionVars, wavelog, reports, linkVars, cwVars, fedNoise,
                   fedFrame>>

(***************************************************************************)
(* CW keyer                                                                *)
(***************************************************************************)
Dot == "."
Dash == "-"

MORSE_CODE ==
    [ c \in { "A", "E", "I", "N", "T", " " } |->
        CASE c = "A" -> <<Dot, Dash>>
          [] c = "E" -> <<Dot>>
          [] c = "I" -> <<Dot, Dot>>
          [] c = "N" -> <<Dash, Dot>>
          [] c = "T" -> <<Dash>>
          [] c = " " -> <<" ">> ]

\* getCWTiming, for the speeds that divide 1200.
getCWTiming(wpm) ==
    LET dotDuration == 1200 \div wpm
    IN  [ dot |-> dotDuration, dash |-> dotDuration * 3,
          symbolSpace |-> dotDuration, letterSpace |-> dotDuration * 3,
          wordSpace |-> dotDuration * 7 ]

\* The places where a call of sendCWMessage is between "cwKeying = true" and
\* the end of its try block.
Keying == { "awaitPttOn", "settle", "tone", "symbolSpace", "letterSpace",
            "wordSpace" }

\* The waits of sendMorseChar.
Waits == { "tone", "symbolSpace", "letterSpace", "wordSpace" }

\* The keyer's globals, and what its steps share with the rest, as the record
\* the keyer's operators work on.
Keyer ==
    [ cw |-> cw, cwKeying |-> cwKeying, keyLine |-> keyLine,
      toneLeft |-> toneLeft, timeouts |-> timeouts, sent |-> sent,
      issued |-> issued, logLast |-> logLast ]

\* What the calls that are in a wait of sendMorseChar see of the line: a
\* level other than the one their wait began with is noted as it comes.
Observed(k) ==
    [ s \in DOMAIN k.cw |->
        IF k.cw[s].pc \in Waits
              /\ k.cw[s].keyed[Len(k.cw[s].keyed)].high # k.keyLine
        THEN [ k.cw[s] EXCEPT
                 !.keyed = Append(@, [ high |-> k.keyLine, ms |-> 0 ]) ]
        ELSE k.cw[s] ]

SetKeyer(k) ==
    /\ cw' = Observed(k)
    /\ cwKeying' = k.cwKeying
    /\ keyLine' = k.keyLine
    /\ toneLeft' = k.toneLeft
    /\ timeouts' = k.timeouts
    /\ sent' = k.sent
    /\ issued' = k.issued
    /\ logLast' = k.logLast

\* What a step of the keyer leaves alone.
keyerRest ==
    <<codecVars, sessionVars, rxVars, lastFrequencyHz, lastModeCode, freqDisplay,
      modeDisplay, meter, wavelogDebounceTimer, lastChange, sinceChange,
      wavelog, reports, isConnected, writer, pttCalls, port, portLost,
      rxData>>

\* setTimeout(resolve, ms) of the call p of fn.
Arm(k, fn, p, ms) ==
    [ k EXCEPT !.timeouts =
        @ \cup { [ id |-> NewTimerId(@), wait |-> ms, fn |-> fn,
                   proc |-> p ] } ]

\* sendCommand from a keyer step: the frame goes to the writer, or nothing.
KeyerSend(k, data) ==
    [ k EXCEPT !.sent = Transmit(@, CMD_PTT, data),
               !.issued = Issue(@, CMD_PTT, data, "keyer", 0) ]

\* "cwKeying = false" by someone other than the calls it cancels.
ClearFlag(k, by) ==
    [ k EXCEPT
        !.cwKeying = FALSE,
        !.cw = [ t \in DOMAIN k.cw |->
                   IF t # by /\ k.cw[t].pc \in Keying
                   THEN [ k.cw[t] EXCEPT !.cancelled = TRUE ]
                   ELSE k.cw[t] ] ]

\* port.setSignals rejects
SignalsFail == port /\ portLost

\* keyDown and keyUp, where setSignals resolves: nothing without a port.
keyDown(k, duration) ==
    IF ~port THEN k
    ELSE [ k EXCEPT !.keyLine = TRUE, !.toneLeft = duration ]

keyUp(k) == IF ~port THEN k ELSE [ k EXCEPT !.keyLine = FALSE ]

\* A wait of sendMorseChar: the timeout armed, and the level the line was
\* left at noted with it.
WaitIn(k, s, pc, ms) ==
    Arm([ k EXCEPT !.cw[s].pc = pc,
                   !.cw[s].keyed =
                       Append(@, [ high |-> k.keyLine, ms |-> 0 ]) ],
        "sendCWMessage", s, ms)

\* sendCWMessage from the end of its try block: the flag, keyUp, the wait
\* before PTT is released. A rejection in keyUp ends the call there.
ExitSeq(k, s, outcome) ==
    LET k1 == [ ClearFlag(k, s) EXCEPT
                  !.cw[s].outcome = outcome,
                  !.logLast = CASE outcome = "sent" -> "CW message sent"
                                [] outcome = "stopped" ->
                                       "CW transmission stopped"
                                [] OTHER -> "Error sending CW" ]
    IN  IF SignalsFail THEN [ k1 EXCEPT !.cw[s].pc = "rejected" ]
        ELSE Arm([ keyUp(k1) EXCEPT !.cw[s].pc = "exitSettle",
                                    !.cw[s].loweredAtExit = port ],
                 "sendCWMessage", s, PTT_SETTLE_MS)

\* sendMorseChar's for loop at symbol j of character i.
SymbolLoop(k, s, i, j) ==
    LET morse == MORSE_CODE[k.cw[s].message[i]]
        timing == getCWTiming(k.cw[s].wpm)
        at == [ k EXCEPT !.cw[s].i = i, !.cw[s].j = j ]
    IN  IF j > Len(morse) \/ ~k.cwKeying
        THEN WaitIn(at, s, "letterSpace", timing.letterSpace)
        ELSE IF SignalsFail THEN ExitSeq(at, s, "error")
        ELSE LET duration == IF morse[j] = Dot THEN timing.dot
                             ELSE timing.dash
             IN  WaitIn(keyDown(at, duration), s, "tone", duration)

\* sendCWMessage's for loop at character i, up to the next wait.
RECURSIVE CharLoop(_, _, _)
CharLoop(k, s, i) ==
    LET message == k.cw[s].message
        timing == getCWTiming(k.cw[s].wpm)
    IN  IF i > Len(message) \/ ~k.cwKeying
        THEN ExitSeq(k, s, IF k.cwKeying THEN "sent" ELSE "stopped")
        ELSE IF message[i] \notin DOMAIN MORSE_CODE
        THEN CharLoop(k, s, i + 1)
        ELSE IF MORSE_CODE[message[i]] = <<" ">>
        THEN WaitIn([ k EXCEPT !.cw[s].i = i ], s, "wordSpace",
                    timing.wordSpace - timing.letterSpace)
        ELSE SymbolLoop(k, s, i, 1)

\* sendMorseChar after the tone: keyUp, then the space that follows.
AfterTone(k, s) ==
    LET morse == MORSE_CODE[k.cw[s].message[k.cw[s].i]]
        timing == getCWTiming(k.cw[s].wpm)
    IN  IF SignalsFail THEN ExitSeq(k, s, "error")
        ELSE IF k.cw[s].j < Len(morse)
        THEN WaitIn(keyUp(k), s, "symbolSpace", timing.symbolSpace)
        ELSE WaitIn(keyUp(k), s, "letterSpace", timing.letterSpace)

\* The call s of sendCWMessage resumed by its timeout.
CWResumed(k, s) ==
    CASE k.cw[s].pc = "settle" -> CharLoop(k, s, 1)
      [] k.cw[s].pc = "tone" -> AfterTone(k, s)
      [] k.cw[s].pc = "symbolSpace" ->
            SymbolLoop(k, s, k.cw[s].i, k.cw[s].j + 1)
      [] k.cw[s].pc \in {"letterSpace", "wordSpace"} ->
            CharLoop(k, s, k.cw[s].i + 1)
      [] k.cw[s].pc = "exitSettle" ->
            [ KeyerSend(k, <<0, 0>>) EXCEPT !.cw[s].pc = "awaitPttOff",
                                           !.cw[s].offSent =
                                               (SendOutcome = "written") ]

\* The cwWPM field as parseInt reads it, 0 for a field that gives 0 or NaN.
WpmFieldSamples == {0, 30}

CwMessages == { <<"E">>, <<"A">>, <<"T", " ", "#">> }

\* sendCWMessage up to its first await.
SendCWMessage(s, message, field) ==
    /\ cw[s].pc = "idle"
    /\ s > 1 => cw[s - 1].pc # "idle"
    /\ IF ~isConnected \/ ~port
       THEN /\ cw' = [ cw EXCEPT ![s].pc = "done",
                                 ![s].outcome = "notConnected" ]
            /\ logLast' = "Not connected to radio"
            /\ UNCHANGED <<cwKeying, sent, issued>>
       ELSE /\ cw' = [ cw EXCEPT ![s] =
                        [ NoSession EXCEPT
                            !.pc = "awaitPttOn", !.message = message,
                            !.wpm = IF field = 0 THEN DEFAULT_WPM ELSE field,
                            !.overlapped =
                                \E t \in DOMAIN cw : cw[t].pc \in Keying,
                            !.onSent = (SendOutcome = "written") ] ]
            /\ logLast' = "Sending CW"
            /\ cwKeying' = TRUE
            /\ sent' = Transmit(sent, CMD_PTT, <<0, 1>>)
            /\ issued' = Issue(issued, CMD_PTT, <<0, 1>>, "keyer", 0)
    /\ lastOp' = "sendCWMessage"
    /\ UNCHANGED <<keyLine, toneLeft, timeouts, pttActive, stops>>
    /\ UNCHANGED keyerRest

\* One of the first n calls of sendCWMessage is made.
SendCWAmong(n) ==
    \E s \in 1..n, message \in CwMessages, field \in WpmFieldSamples :
        SendCWMessage(s, message, field)

SendCW == SendCWAmong(MaxSessions)

SendCWAlone == SendCWAmong(MaxAlone)

\* sendCWMessage after an await of sendCommand.
CWSendDone ==
    /\ \E s \in 1..MaxSessions :
        \/ /\ cw[s].pc = "awaitPttOn"
           /\ pttActive' = TRUE
           /\ SetKeyer(Arm([ Keyer EXCEPT !.cw[s].pc = "settle" ],
                           "sendCWMessage", s, PTT_SETTLE_MS))
        \/ /\ cw[s].pc = "awaitPttOff"
           /\ pttActive' = FALSE
           /\ SetKeyer([ Keyer EXCEPT !.cw[s].pc = "done" ])
    /\ lastOp' = "cwSendDone"
    /\ UNCHANGED stops
    /\ UNCHANGED keyerRest

\* sendCWMessage after one of its timeouts.
CWTimer ==
    /\ \E x \in timeouts :
        /\ x.wait = 0
        /\ x.fn = "sendCWMessage"
        /\ SetKeyer(CWResumed([ Keyer EXCEPT !.timeouts = @ \ {x} ], x.proc))
    /\ lastOp' = "cwTimer"
    /\ UNCHANGED <<pttActive, stops>>
    /\ UNCHANGED keyerRest

\* stopCW up to its timeout. A rejection in keyUp ends the call there.
StopCW ==
    /\ \E p \in 1..MaxStops :
        /\ stops[p] = "idle"
        /\ p > 1 => stops[p - 1] # "idle"
        /\ LET k == [ ClearFlag(Keyer, 0) EXCEPT
                        !.logLast = "Stopping CW transmission..." ]
           IN  IF SignalsFail
               THEN SetKeyer(k) /\ stops' = [ stops EXCEPT ![p] = "rejected" ]
               ELSE /\ SetKeyer(Arm(keyUp(k), "stopCW", p, PTT_SETTLE_MS))
                    /\ stops' = [ stops EXCEPT ![p] = "settle" ]
    /\ lastOp' = "stopCW"
    /\ UNCHANGED pttActive
    /\ UNCHANGED keyerRest

\* stopCW after its timeout, and after its await of sendCommand.
StopCWResumed ==
    /\ \E p \in 1..MaxStops :
        \/ /\ stops[p] = "settle"
           /\ \E x \in timeouts :
                /\ x.wait = 0 /\ x.fn = "stopCW" /\ x.proc = p
                /\ SetKeyer(KeyerSend([ Keyer EXCEPT !.timeouts = @ \ {x} ],
                                      <<0, 0>>))
           /\ stops' = [ stops EXCEPT ![p] = "awaitPttOff" ]
           /\ UNCHANGED pttActive
        \/ /\ stops[p] = "awaitPttOff"
           /\ pttActive' = FALSE
           /\ stops' = [ stops EXCEPT ![p] = "done" ]
           /\ SetKeyer(Keyer)
    /\ lastOp' = "stopCWResumed"
    /\ UNCHANGED keyerRest

\* disconnect: reader and writer are given up; port.close() then resolves
\* and the session is closed, or rejects and the catch block logs it.
Disconnect ==
    /\ isConnected
    /\ statusPollInterval' = NO_TIMER
    /\ timeouts' = IF statusPollInterval # NO_TIMER
                   THEN clearTimeout(timeouts, statusPollInterval)
                   ELSE timeouts
    /\ reading' = FALSE
    /\ writer' = FALSE
    /\ \E closes \in BOOLEAN :
        IF closes
        THEN /\ port' = FALSE
             /\ isConnected' = FALSE
             /\ freqDisplay' = "blank"
             /\ modeDisplay' = "---"
             /\ meter' = BlankMeter
             /\ logLast' = "Disconnected"
        ELSE /\ logLast' = "Disconnect error"
             /\ UNCHANGED <<port, isConnected, freqDisplay, modeDisplay, meter>>
    /\ lastOp' = "disconnect"
    /\ UNCHANGED <<codecVars, rxVars, lastFrequencyHz, lastModeCode, pttActive,
                   wavelogDebounceTimer, lastChange, sinceChange,
                   wavelog, reports, sent, pttCalls, issued, portLost,
                   cwKeying, keyLine, toneLeft, cw, stops, rxData, freqInput,
                   readError, ticks, arrived, fetches, closeVars, frameVars>>

\* The await disconnect comes to next: the first of reader, writer and port
\* that is still held, or none.
AwaitAfter(r, w, p) ==
    IF r THEN "reader.cancel"
    ELSE IF w THEN "writer.close"
    ELSE IF p THEN "port.close"
    ELSE "idle"

\* "Initial status read"
INITIAL_READ_MS == 500

\* disconnect from its last await on: isConnected = false,
\* updateConnectionStatus(false), the log line.
DisconnectEnds(done) ==
    /\ isConnected' = FALSE
    /\ freqDisplay' = "blank"
    /\ modeDisplay' = "---"
    /\ meter' = BlankMeter
    /\ logLast' = "Disconnected"
    /\ closing' = [ closing EXCEPT !.pc = "idle",
                                   !.done = Append(done, "disconnected") ]

\* disconnect up to its first await: stopStatusPolling, then cancel() on the
\* reader, which ends the pending read of readLoop.
DisconnectBegin ==
    /\ isConnected
    /\ closing.pc = "idle"
    /\ statusPollInterval' = NO_TIMER
    /\ timeouts' = IF statusPollInterval # NO_TIMER
                   THEN clearTimeout(timeouts, statusPollInterval)
                   ELSE timeouts
    /\ reading' = IF reader THEN FALSE ELSE reading
    /\ IF AwaitAfter(reader, writer, port) = "idle"
       THEN DisconnectEnds(<<"stopStatusPolling">>)
       ELSE /\ closing' = [ closing EXCEPT
                              !.pc = AwaitAfter(reader, writer, port),
                              !.done = <<"stopStatusPolling">> ]
            /\ UNCHANGED <<isConnected, freqDisplay, modeDisplay, meter,
                           logLast>>
    /\ lastOp' = "disconnect"
    /\ UNCHANGED <<codecVars, rxVars, cwVars, lastFrequencyHz, lastModeCode,
                   pttActive, wavelogDebounceTimer, lastChange, sinceChange,
                   wavelog, reports, writer, sent, pttCalls, issued, rxData,
                   freqInput, readError, ticks, arrived, fetches, reader,
                   frameVars>>

\* disconnect after an await: the promise rejects and the catch block logs
\* it, or it resolves, the handle is set to null and the next one is closed.
DisconnectResume ==
    /\ closing.pc # "idle"
    /\ \E resolves \in BOOLEAN :
        IF ~resolves
        THEN /\ closing' = [ closing EXCEPT !.pc = "idle",
                                            !.done = Append(@, "error") ]
             /\ logLast' = "Disconnect error"
             /\ UNCHANGED <<reader, writer, port, isConnected, freqDisplay,
                            modeDisplay, meter>>
        ELSE LET r == reader /\ closing.pc # "reader.cancel"
                 w == writer /\ closing.pc # "writer.close"
                 p == port /\ closing.pc # "port.close"
                 done == Append(closing.done, closing.pc)
             IN  /\ reader' = r
                 /\ writer' = w
                 /\ port' = p
                 /\ IF AwaitAfter(r, w, p) = "idle"
                    THEN DisconnectEnds(done)
                    ELSE /\ closing' = [ closing EXCEPT
                                           !.pc = AwaitAfter(r, w, p),
                                           !.done = done ]
                         /\ UNCHANGED <<isConnected, freqDisplay, modeDisplay,
                                        meter, logLast>>
    /\ lastOp' = "disconnect"
    /\ UNCHANGED <<codecVars, rxVars, lastFrequencyHz, lastModeCode, pttActive,
                   wavelogDebounceTimer, timeouts, lastChange, sinceChange,
                   wavelog, reports, sent, pttCalls, issued, portLost,
                   cwKeying, keyLine, toneLeft, cw, stops, rxData, pollVars,
                   arrived, fetches, frameVars>>

\* connect, from the Connect button, which updateConnectionStatus enables
\* only while disconnected: the user picks no port, or the port does not
\* open, or it opens: writer and reader are taken, readLoop and the poll
\* interval started and the initial status read set for 500 ms later.
Connect ==
    /\ ~isConnected
    /\ closing.opened < MaxConnects
    /\ \E outcome \in {"noPort", "openFailed", "opened"} :
        IF outcome = "opened" /\ ~portLost
        THEN LET id == NewTimerId(timeouts)
                 t1 == timeouts \cup
                         { [ id |-> id, wait |-> POLL_PERIOD_MS,
                             fn |-> "pollTick", proc |-> 0 ] }
             IN  /\ port' = TRUE
                 /\ writer' = TRUE
                 /\ reader' = TRUE
                 /\ isConnected' = TRUE
                 /\ reading' = TRUE
                 /\ buffer' = <<>>
                 /\ statusPollInterval' = id
                 /\ timeouts' = t1 \cup
                         { [ id |-> NewTimerId(t1), wait |-> INITIAL_READ_MS,
                             fn |-> "initialRead", proc |-> 0 ] }
                 /\ closing' = [ closing EXCEPT !.opened = @ + 1 ]
                 /\ logLast' = "Connected"
        ELSE /\ port' = (port \/ outcome # "noPort")
             /\ logLast' = "Connection failed"
             /\ UNCHANGED <<writer, reader, isConnected, reading, buffer,
                            statusPollInterval, timeouts, closing>>
    /\ lastOp' = "connect"
    /\ UNCHANGED <<codecVars, lastFrequencyHz, lastModeCode, pttActive,
                   freqDisplay, modeDisplay, meter, wavelogDebounceTimer,
                   lastChange, sinceChange, wavelog, reports, sent, pttCalls,
                   issued, portLost, cwKeying, keyLine, toneLeft, cw, stops,
                   rxData, wire, packets, fedNoise, fedFrame, freqInput,
                   readError, ticks, arrived, fetches, frameVars>>

\* The timeout of the initial status read: readFrequency, readMode and
\* readSMeter called one after the other.
InitialRead ==
    /\ \E x \in timeouts :
        /\ x.wait = 0
        /\ x.fn = "initialRead"
        /\ timeouts' = timeouts \ {x}
    /\ LET q == Queries
           f == "readFrequency"
           m == "readMode"
           sm == "readSMeter"
       IN  /\ sent' = Transmit(Transmit(Transmit(sent, q[f].cmd, q[f].data),
                                        q[m].cmd, q[m].data),
                               q[sm].cmd, q[sm].data)
           /\ issued' = Issue(Issue(Issue(issued, q[f].cmd, q[f].data, f, 0),
                                    q[m].cmd, q[m].data, m, 0),
                              q[sm].cmd, q[sm].data, sm, 0)
    /\ lastOp' = "initialRead"
    /\ UNCHANGED <<codecVars, sessionVars, rxVars, cwVars, lastFrequencyHz,
                   lastModeCode, pttActive, freqDisplay, modeDisplay, meter,
                   logLast, wavelogDebounceTimer, lastChange, sinceChange,
                   wavelog, reports, isConnected, writer, pttCalls, rxData>>

\* The device is unplugged: from here on setSignals rejects.
PortLost ==
    /\ port
    /\ ~portLost
    /\ portLost' = TRUE
    /\ lastOp' = "portLost"
    /\ UNCHANGED <<codecVars, sessionVars, rxVars, trackerVars, wavelog, reports, linkVars,
                   port, cwKeying, keyLine, toneLeft, cw, stops, rxData>>

(***************************************************************************)
(* Timers                                                                  *)
(***************************************************************************)
\* Time passes by d ms: no pending timeout is passed over.
CanElapse(d) == d > 0 /\ \A x \in timeouts : x.wait >= d

\* The time to the next timeout.
NextDue ==
    CHOOSE d \in { x.wait : x \in timeouts } : \A x \in timeouts : d <= x.wait

\* d ms pass: every pending timeout is that much nearer, and so is the end
\* of the tone; the waits of sendMorseChar have lasted that much longer.
Elapse(d) ==
    /\ CanElapse(d)
    /\ timeouts' = { [ x EXCEPT !.wait = x.wait - d ] : x \in timeouts }
    /\ sinceChange' = IF lastChange.seen
                      THEN Min(sinceChange + d, ClockCap)
                      ELSE sinceChange
    /\ toneLeft' = IF toneLeft > d THEN toneLeft - d ELSE 0
    /\ cw' = [ s \in DOMAIN cw |->
                 IF cw[s].pc \in Waits
                 THEN [ cw[s] EXCEPT !.keyed[Len(cw[s].keyed)].ms = @ + d ]
                 ELSE cw[s] ]
    /\ lastOp' = "elapse"
    /\ UNCHANGED <<codecVars, sessionVars, rxVars, lastFrequencyHz, lastModeCode, pttActive,
                   freqDisplay, modeDisplay, meter, logLast,
                   wavelogDebounceTimer, lastChange, wavelog, reports,
                   linkVars, port, portLost, cwKeying, keyLine, stops, rxData>>

\* Time passes by one quantum.
Tick == Elapse(Quantum)

\* Time passes up to the next timeout.
ElapseToDue == timeouts # {} /\ Elapse(NextDue)

\* sendToWavelog up to its fetch: the POST made, or none.
Configured == wavelog.enabled /\ wavelog.url # "" /\ wavelog.key # ""

sendToWavelog(frequency, mode) ==
    IF ~wavelog.enabled \/ wavelog.url = "" \/ wavelog.key = "" THEN <<>>
    ELSE << [ frequency |-> frequency, mode |-> WavelogModeName(mode),
              after |-> sinceChange ] >>

\* The debounce timeout's callback; the POST, if one is made, is answered
\* later.
WavelogTimer ==
    /\ \E x \in timeouts :
        /\ x.wait = 0
        /\ x.fn = "wavelog"
        /\ timeouts' = timeouts \ {x}
    /\ reports' = reports \o sendToWavelog(lastFrequencyHz, lastModeCode)
    /\ fetches' = fetches + Len(sendToWavelog(lastFrequencyHz, lastModeCode))
    /\ wavelogDebounceTimer' = NO_TIMER
    /\ lastOp' = "wavelogTimer"
    /\ UNCHANGED <<codecVars, pollVars, arrived, closeVars, frameVars, rxVars,
                   cwVars,
                   lastFrequencyHz, lastModeCode, pttActive,
                   freqDisplay, modeDisplay, meter, logLast, lastChange,
                   sinceChange, wavelog, linkVars, rxData>>

\* What fetch can come back with: a 2xx response, another status, or a
\* rejection.
FetchOutcomes == {"ok", "status", "exception"}

\* sendToWavelog that arms the debounce timer again after a failure.
fetchSettled_Retry(s, outcome) ==
    IF outcome = "ok" THEN [ s EXCEPT !.logLast = "Wavelog updated" ]
    ELSE onRadioStateChanged([ s EXCEPT !.logLast = "Wavelog update failed" ])

\* sendToWavelog after its await: one line in the log.
fetchSettled(s, outcome) ==
    [ s EXCEPT !.logLast = CASE outcome = "ok" -> "Wavelog updated"
                             [] outcome = "status" -> "Wavelog update failed"
                             [] OTHER -> "Wavelog error" ]

\* A POST is answered, or fails.
FetchDone ==
    /\ fetches > 0
    /\ fetches' = fetches - 1
    /\ \E outcome \in FetchOutcomes :
        SetTracker(fetchSettled(Tracker, outcome))
    /\ lastOp' = "fetchDone"
    /\ UNCHANGED <<codecVars, pollVars, arrived, closeVars, frameVars, rxVars,
                   cwVars,
                   wavelog, reports, linkVars, rxData>>

(***************************************************************************)
(* The codec round trip, on sampled frequencies of up to ten digits        *)
(***************************************************************************)
LimbSamples ==
    (0..MaxSmall) \cup
    { 9, 10, 19, 90, 99, 100, 101, 909, 999, 1000, 7074, 9090, 9999,
      10000, 10001, 12345, 14074, 50505, 54321, 60000, 90909, 98765,
      99990, 99998, 99999 }

FreqSamples == { Num2(hi, lo) : hi \in LimbSamples, lo \in LimbSamples }

CodecInit ==
    /\ codecPc = "start"
    /\ codecHz \in FreqSamples
    /\ codecBcd = <<>>
    /\ codecBack = Zero

CodecEncode ==
    /\ codecPc = "start"
    /\ codecBcd' = frequencyToBCD(codecHz)
    /\ codecPc' = "encoded"
    /\ UNCHANGED <<codecHz, codecBack>>
    /\ UNCHANGED <<trackerVars, rxVars, cwVars, sessionVars, wavelog, reports,
                   linkVars, rxData, lastOp>>

CodecDecode ==
    /\ codecPc = "encoded"
    /\ codecBack' = bcdToFrequency(codecBcd)
    /\ codecPc' = "decoded"
    /\ UNCHANGED <<codecHz, codecBcd>>
    /\ UNCHANGED <<trackerVars, rxVars, cwVars, sessionVars, wavelog, reports,
                   linkVars, rxData, lastOp>>

InitCodec ==
    /\ CodecInit
    /\ TrackerInit
    /\ LinkInit
    /\ CwIdle
    /\ SessionIdle
    /\ RxIdle
    /\ wavelog = WavelogDefault

CodecNext == CodecEncode \/ CodecDecode

SpecCodec == InitCodec /\ [][CodecNext]_vars

\* C1: for every integer f in [0, 9,999,999,999], frequencyToBCD(f) is
\* exactly 5 bytes and bcdToFrequency(frequencyToBCD(f)) equals f.
C1_RoundTrip ==
    /\ codecPc # "start" =>
          /\ Len(codecBcd) = 5
          /\ \A i \in 1..5 : codecBcd[i] \in Byte
    /\ codecPc = "decoded" => codecBack = codecHz

C1_Witness ==
    /\ codecPc = "decoded"
    /\ codecHz = Num2(99999, 99999)
    /\ codecBcd = <<153, 153, 153, 153, 153>>
    /\ codecBack = codecHz

(***************************************************************************)
(* Packets handed to handleResponse                                        *)
(***************************************************************************)
Hz14074000 == Num2(140, 74000)
Hz7030000 == Num2(70, 30000)

FreqResponses ==
    { Response(CMD_READ_FREQ, frequencyToBCD(f)) :
        f \in {Hz14074000, Hz7030000} }

ModeResponses ==
    { Response(CMD_READ_MODE, p) : p \in { <<1, 1>>, <<3, 1>>, <<7>> } }

MeterResponses ==
    { Response(CMD_READ_SMETER, <<sub, hi, lo>>) :
        sub \in {SUB_SMETER, SUB_POWER, 5}, hi \in {0, 1},
        lo \in {0, 60, 121, 255} }
    \cup { Response(CMD_READ_SMETER, <<SUB_SMETER, 0>>) }

StatusResponses ==
    { Response(CMD_READ_OPERATING_STATUS, p) :
        p \in { <<0, 0>>, <<0, 1>>, <<1, 1>>, <<0>> } }

OtherResponses ==
    { Response(CMD_ACK, <<>>), Response(CMD_NAK, <<>>),
      Response(CMD_SEND_CW, <<0>>), Response(CMD_READ_FREQ, <<0, 64>>) }

WellFormed ==
    FreqResponses \cup ModeResponses \cup StatusResponses \cup OtherResponses
    \cup { Response(CMD_READ_SMETER, <<sub, 0, 60>>) :
            sub \in {SUB_SMETER, SUB_POWER} }

\* Each well-formed packet cut short, with its preamble or its end damaged.
Damaged ==
    UNION { { SubSeq(v, 1, k) : k \in 0..5 }
            \cup { SubSeq(v, 1, Len(v) - 1) }
            \cup { <<PREAMBLE, PREAMBLE, EOM>>,
                   <<PREAMBLE, PREAMBLE, v[3], v[4], EOM>> }
            \cup { [ v EXCEPT ![1] = x ] : x \in {0, EOM} }
            \cup { [ v EXCEPT ![2] = x ] : x \in {0, EOM} }
            \cup { [ v EXCEPT ![Len(v)] = x ] : x \in {0, PREAMBLE} }
          : v \in WellFormed }

(***************************************************************************)
(* handleResponse on well-formed and damaged packets                       *)
(***************************************************************************)
InitTracker ==
    /\ CodecIdle
    /\ TrackerInit
    /\ LinkInit
    /\ CwIdle
    /\ SessionIdle
    /\ RxIdle
    /\ wavelog = WavelogDefault

ReceiveWellFormed == \E d \in WellFormed : Receive(d)

ReceiveDamaged == \E d \in Damaged : Receive(d)

DecodeNext == ReceiveWellFormed \/ ReceiveDamaged

SpecDecode == InitTracker /\ [][DecodeNext]_vars

\* The byte sequences decode must refuse.
InvalidFrame(d) ==
    \/ Len(d) < 6
    \/ d[1] # 254 \/ d[2] # 254
    \/ d[Len(d)] # 253

\* C2: for every byte sequence shorter than 6 bytes, or not starting with
\* FE FE, or not ending with FD, parseResponse returns the failure value and
\* handleResponse reports the packet invalid and changes no radio state.
C2_InvalidFrameIgnored ==
    [][ (lastOp' = "handleResponse" /\ InvalidFrame(rxData')) =>
            /\ parseResponse(rxData') = NULL
            /\ logLast' = "Invalid response packet"
            /\ UNCHANGED <<lastFrequencyHz, lastModeCode, pttActive,
                           freqDisplay, modeDisplay, meter,
                           wavelogDebounceTimer, timeouts, reports>> ]_vars

\* A frequency response with a damaged end arrived after a frequency and a
\* mode were known, and was refused.
C2_Witness ==
    /\ lastOp = "handleResponse"
    /\ InvalidFrame(rxData)
    /\ Len(rxData) = 11
    /\ rxData[5] = CMD_READ_FREQ
    /\ rxData[11] # EOM
    /\ rxData[6] = 0
    /\ lastFrequencyHz = Hz7030000
    /\ lastModeCode # NO_MODE
    /\ logLast = "Invalid response packet"

(***************************************************************************)
(* Meter and status responses, with the PTT button                         *)
(***************************************************************************)
ReceiveMeter == \E d \in MeterResponses : Receive(d)

ReceiveStatus == \E d \in StatusResponses : Receive(d)

MeterNext == ReceiveMeter \/ ReceiveStatus \/ TogglePTT \/ TogglePTTDone

SpecMeter == InitTracker /\ [][MeterNext]_vars

\* rxData is a meter response with this sub-command and three payload bytes.
IsMeterResponse(d, sub) ==
    /\ ~InvalidFrame(d)
    /\ d[5] = 21
    /\ Len(d) >= 9
    /\ d[6] = sub

\* C4: an S-meter response (sub-command 02) applied while the PTT flag is
\* true, and a power-meter response (sub-command 11) applied while it is
\* false, leave the meter unchanged; whenever the meter changes, the reading
\* shown is an S-meter reading taken with PTT off or a power reading taken
\* with PTT on.
C4_MeterMatchesPtt ==
    [][ /\ (lastOp' = "handleResponse" /\ IsMeterResponse(rxData', 2)
            /\ pttActive) => meter' = meter
        /\ (lastOp' = "handleResponse" /\ IsMeterResponse(rxData', 17)
            /\ ~pttActive) => meter' = meter
        /\ meter' # meter =>
            /\ lastOp' = "handleResponse"
            /\ pttActive' = pttActive
            /\ meter'.label = "S-METER (RX)" =>
                  ~pttActive /\ IsMeterResponse(rxData', 2)
            /\ meter'.label = "POWER (TX)" =>
                  pttActive /\ IsMeterResponse(rxData', 17) ]_vars

\* An S-meter response arrived while transmitting and the meter still shows
\* the power reading taken before.
C4_Witness ==
    /\ lastOp = "handleResponse"
    /\ IsMeterResponse(rxData, 2)
    /\ rxData[8] = 60
    /\ pttActive
    /\ meter = [ label |-> "POWER (TX)", text |-> <<100, "W">>, level |-> 14 ]

\* The steps that apply a decoded frame, and the steps of the keyer.
FrameOrKeyerOps ==
    { "handleResponse", "readLoop", "sendCWMessage", "cwSendDone", "cwTimer",
      "stopCW", "stopCWResumed" }

\* C22: frequency, mode, PTT flag and meter change only in a step that
\* applies a decoded frame or in a step of the keyer; the user's PTT toggle
\* leaves them as they are.
C22_TrackerOwnsState ==
    [][ radioState' # radioState => lastOp' \in FrameOrKeyerOps ]_vars

(***************************************************************************)
(* Mode responses carrying every byte value                                *)
(***************************************************************************)
ReceiveAnyMode ==
    \E b \in Byte : \E p \in { <<b>>, <<b, 1>> } :
        Receive(Response(CMD_READ_MODE, p))

ModeNext == ReceiveAnyMode

SpecMode == InitTracker /\ [][ModeNext]_vars

DefinedModes == {0, 1, 2, 3, 4, 5, 7, 8}

\* The table as the specification gives it.
NameOfMode(b) ==
    CASE b = 0 -> "LSB" [] b = 1 -> "USB" [] b = 2 -> "AM" [] b = 3 -> "CW"
      [] b = 4 -> "RTTY" [] b = 5 -> "FM" [] b = 7 -> "CW-R"
      [] b = 8 -> "RTTY-R" [] OTHER -> "Unknown"

\* C10: the mode table maps the 8 defined mode bytes one-to-one onto the 8
\* names, and a mode response carrying any other byte is applied with the
\* name resolved to the unknown marker (the handler completes: the byte is
\* recorded as the last mode code).
C10_ModeTable ==
    /\ Cardinality(DOMAIN MODES) = 8
    /\ Cardinality({ MODES[k] : k \in DOMAIN MODES }) = 8
    /\ \A b \in DefinedModes :
          /\ ModeCodeHex(b) \in DOMAIN MODES
          /\ MODES[ModeCodeHex(b)] = NameOfMode(b)
    /\ (lastOp = "handleResponse" /\ parseResponse(rxData) # NULL) =>
          /\ lastModeCode = rxData[6]
          /\ modeDisplay = NameOfMode(rxData[6])
          /\ rxData[6] \notin DefinedModes => modeDisplay = "Unknown"

\* A mode response with the undefined byte 06 was applied after CW-R.
C10_Witness ==
    /\ lastOp = "handleResponse"
    /\ rxData = Response(CMD_READ_MODE, <<6, 1>>)
    /\ lastModeCode = 6
    /\ modeDisplay = "Unknown"
    /\ lastChange.seen

(***************************************************************************)
(* The Wavelog notifier: frequency and mode responses, time, the timer     *)
(***************************************************************************)
InitTelemetry ==
    /\ CodecIdle
    /\ TrackerInit
    /\ LinkInit
    /\ CwIdle
    /\ SessionIdle
    /\ RxIdle
    /\ wavelog \in WavelogSettings

ReceiveFreq ==
    /\ Len(reports) < MaxReports
    /\ \E d \in FreqResponses : Receive(d)

ReceiveMode ==
    /\ Len(reports) < MaxReports
    /\ \E d \in ModeResponses : Receive(d)

TelemetryNext ==
    ReceiveFreq \/ ReceiveMode \/ Tick \/ ElapseToDue \/ WavelogTimer

SpecTelemetry == InitTelemetry /\ [][TelemetryNext]_vars

\* The reports sent since the last change event.
ReportsSinceChange == SubSeq(reports, lastChange.n + 1, Len(reports))

\* C5 as stated (telemetry being enabled with its URL and key): after any
\* burst of change events, once more than 500 ms of silence have passed,
\* exactly one report has gone out, 500 ms after the last event, carrying
\* the pair current after that event; none goes out earlier.
C5_AsStated ==
    (lastChange.seen /\ Configured) =>
        /\ Len(ReportsSinceChange) <= 1
        /\ sinceChange > 500 => Len(ReportsSinceChange) = 1
        /\ Len(ReportsSinceChange) = 1 =>
              ReportsSinceChange[1] =
                  [ frequency |-> lastChange.frequency,
                    mode |-> WavelogModeName(lastChange.mode),
                    after |-> 500 ]

\* C5, amended: the same for change events that arrive when both a frequency
\* and a mode have been read, with telemetry enabled and its URL and key
\* set; without these no report goes out.
C5_Debounce ==
    /\ lastChange.known => C5_AsStated
    /\ (lastChange.seen /\ ~(lastChange.known /\ Configured)) =>
          ReportsSinceChange = <<>>

\* Five change events, each within 500 ms of the one before, then silence:
\* one report, 500 ms after the last, with the pair of the last.
C5_Witness ==
    /\ lastChange.seen /\ lastChange.known /\ Configured
    /\ lastChange.burst = 5
    /\ sinceChange > 500
    /\ reports = << [ frequency |-> Hz7030000, mode |-> "CW",
                      after |-> 500 ] >>
    /\ lastFrequencyHz = Hz7030000
    /\ lastModeCode = 7

\* A frequency or mode response has just replaced a known value by another.
ChangeEvent ==
    /\ lastOp' = "handleResponse"
    /\ \/ lastFrequencyHz # NULL /\ lastFrequencyHz' # lastFrequencyHz
       \/ lastModeCode # NO_MODE /\ lastModeCode' # lastModeCode

\* The debounce timer is the one pending Wavelog timeout, 500 ms from now.
Armed ==
    /\ wavelogDebounceTimer # NO_TIMER
    /\ { x \in timeouts : x.fn = "wavelog" } =
          { [ id |-> wavelogDebounceTimer, wait |-> 500, fn |-> "wavelog",
              proc |-> 0 ] }

\* The last change event has its timer pending or, telemetry being enabled
\* with its URL and key, its report sent.
Answered ==
    \/ wavelogDebounceTimer # NO_TIMER
    \/ Configured => Len(ReportsSinceChange) >= 1

\* C19 as stated: every change event leaves the debounce timer armed afresh,
\* and every change event has its timer pending or its report sent.
C19_AsStated ==
    [][ /\ ChangeEvent => Armed'
        /\ lastChange'.seen => Answered' ]_vars

\* C19, amended: the same for the change events that come when both a
\* frequency and a mode have been read; a change event that comes while one
\* of the two is unknown touches no timer.
C19_Armed ==
    [][ /\ (ChangeEvent /\ lastFrequencyHz' # NULL /\ lastModeCode' # NO_MODE)
            => Armed'
        /\ (ChangeEvent /\ ~(lastFrequencyHz' # NULL /\ lastModeCode' # NO_MODE))
            => /\ timeouts' = timeouts
               /\ wavelogDebounceTimer' = wavelogDebounceTimer
        /\ (lastChange'.seen /\ lastChange'.known) => Answered' ]_vars

\* A second change event has just come while the timer of the first was
\* running, both values known: one timer is pending, 500 ms from now.
C19_Witness ==
    /\ lastOp = "handleResponse"
    /\ lastChange.known
    /\ lastChange.burst = 2
    /\ sinceChange = 0
    /\ Armed
    /\ reports = <<>>

(***************************************************************************)
(* readLoop fed noise and then one frame                                   *)
(***************************************************************************)
Filler(n, b) == [ i \in 1..n |-> b ]

\* The sequences over S of length at most n.
SeqsUpTo(S, n) == UNION { [ 1..k -> S ] : k \in 0..n }

HasMarker(q) ==
    \E i \in 1..(Len(q) - 1) : q[i] = PREAMBLE /\ q[i + 1] = PREAMBLE

\* Noise: short runs of stray bytes, single FE among them, and long runs
\* that bring the buffer to its limit.
NoiseSamples ==
    { q \in SeqsUpTo({170, PREAMBLE}, MaxNoise) : ~HasMarker(q) }
    \cup { Filler(n, 170) : n \in {BUFFER_KEEP - 1, BUFFER_KEEP, BUFFER_LIMIT} }

\* Frames: the responses the tracker knows, short payloads with FE in them,
\* and payloads that bring the frame to 51 and 52 bytes.
FrameSamples ==
    FreqResponses \cup StatusResponses
    \cup { Response(CMD_READ_MODE, p) :
            p \in SeqsUpTo({1, PREAMBLE}, MaxPayload) }
    \cup { Response(CMD_READ_SMETER, Filler(n, 0)) :
            n \in {BUFFER_KEEP - 5, BUFFER_KEEP - 4} }

InitRx ==
    /\ CodecIdle
    /\ TrackerInit
    /\ LinkInit
    /\ CwIdle
    /\ SessionIdle
    /\ wavelog = WavelogDefault
    /\ fedNoise \in NoiseSamples
    /\ fedFrame \in FrameSamples
    /\ wire = fedNoise \o fedFrame
    /\ buffer = <<>>
    /\ packets = <<>>

ReadSome == \E n \in 1..MaxChunk : ReadChunk(n)

ReadAll == ReadChunk(Len(wire))

RxNext == ReadSome \/ ReadAll

SpecRx == InitRx /\ [][RxNext]_vars

\* The bytes of q from the nearest FE FE before its last byte to its end.
FromNearestMarker(q) ==
    SubSeq(q, Max({ i \in 1..(Len(q) - 2) :
                      q[i] = PREAMBLE /\ q[i + 1] = PREAMBLE }), Len(q))

IsSuffix(a, b) ==
    Len(a) <= Len(b) /\ a = SubSeq(b, Len(b) - Len(a) + 1, Len(b))

\* C3 as stated: fed noise holding neither FE FE nor FD and then one
\* complete frame, readLoop hands on nothing before the terminator and then
\* exactly one packet: the bytes from the nearest FE FE before the terminator
\* up to it, none of them noise.
C3_AsStated ==
    /\ wire # <<>> => packets = <<>>
    /\ wire = <<>> =>
          /\ packets = << FromNearestMarker(fedNoise \o fedFrame) >>
          /\ IsSuffix(packets[1], fedFrame)

\* C3, amended: the same for a frame of at most 51 bytes.
C3_OneFrame == Len(fedFrame) <= BUFFER_KEEP + 1 => C3_AsStated

\* Noise ending in a single FE, then a mode response whose payload holds
\* FE FE, read in pieces: the one packet starts at the marker in the payload.
C3_Witness ==
    /\ wire = <<>>
    /\ lastOp = "readLoop"
    /\ fedNoise = <<170, PREAMBLE>>
    /\ fedFrame = Response(CMD_READ_MODE, <<PREAMBLE, PREAMBLE>>)
    /\ packets = << <<PREAMBLE, PREAMBLE, EOM>> >>
    /\ buffer = <<170, PREAMBLE, PREAMBLE, PREAMBLE, CONTROLLER_ADDRESS,
                  IC7300_ADDRESS, CMD_READ_MODE>>
    /\ logLast = "Invalid response packet"

\* C18: a chunk whose last byte is its only terminator and which yields a
\* packet leaves the buffer empty: the frame and every byte before it are
\* gone.
C18_EmptyAfterExtraction ==
    [][ LET value == SubSeq(wire, 1, Len(wire) - Len(wire'))
        IN  ( /\ lastOp' = "readLoop"
              /\ Len(packets') = Len(packets) + 1
              /\ value # <<>>
              /\ \A k \in 1..Len(value) : value[k] = EOM <=> k = Len(value) )
            => buffer' = <<>> ]_vars

\* C27: every packet readLoop hands to handleResponse has 6 bytes or more,
\* starts with FE FE and ends with FD, so that parseResponse accepts it.
C27_ExtractedFramesValid ==
    \A i \in 1..Len(packets) :
        /\ ~InvalidFrame(packets[i])
        /\ parseResponse(packets[i]) # NULL

(***************************************************************************)
(* The keyer, with calls of sendCWMessage and stopCW as they come          *)
(***************************************************************************)
InitKeyer ==
    /\ CodecIdle
    /\ TrackerInit
    /\ LinkInit
    /\ CwIdle
    /\ SessionIdle
    /\ RxIdle
    /\ wavelog = WavelogDefault

KeyerNext ==
    SendCW \/ CWSendDone \/ CWTimer \/ StopCW \/ StopCWResumed \/ ElapseToDue

SpecKeyer == InitKeyer /\ [][KeyerNext]_vars

\* The keyer with fewer calls of sendCWMessage.
KeyerAloneNext ==
    SendCWAlone \/ CWSendDone \/ CWTimer \/ StopCW \/ StopCWResumed
        \/ ElapseToDue

SpecKeyerAlone == InitKeyer /\ [][KeyerAloneNext]_vars

\* The same with the port closed or the device lost at any moment.
KeyerFaultsNext == KeyerAloneNext \/ Disconnect \/ PortLost

SpecKeyerFaults == InitKeyer /\ [][KeyerFaultsNext]_vars

\* C6 as stated: a call of sendCWMessage made while another call is keying
\* ends Busy: it sends no PTT command, keys nothing, and leaves the flag and the
\* line of the running call alone.
C6_BusyWhenKeying ==
    \A s \in 1..MaxSessions :
        cw[s].overlapped =>
            /\ cw[s].outcome = "busy"
            /\ ~cw[s].onSent
            /\ cw[s].keyed = <<>>

\* What the statement of the timing gives for one character at a unit of
\* time: per symbol a pulse of one unit (dot) or three (dash), a gap of one
\* unit between symbols, a gap of three units after the last.
CharKeying(morse, unit) ==
    LET Piece(k) ==
            << [ high |-> TRUE,
                 ms |-> IF morse[k] = Dot THEN unit ELSE 3 * unit ],
               [ high |-> FALSE,
                 ms |-> IF k < Len(morse) THEN unit ELSE 3 * unit ] >>
        Pieces[k \in 0..Len(morse)] ==
            IF k = 0 THEN <<>> ELSE Pieces[k - 1] \o Piece(k)
    IN  Pieces[Len(morse)]

\* The same for a message: a space adds four units of silence, a character
\* without a pattern adds nothing.
MessageKeying(message, unit) ==
    LET Chars[i \in 0..Len(message)] ==
            IF i = 0 THEN <<>>
            ELSE Chars[i - 1] \o
                 ( IF message[i] \notin DOMAIN MORSE_CODE THEN <<>>
                   ELSE IF message[i] = " "
                   THEN << [ high |-> FALSE, ms |-> 4 * unit ] >>
                   ELSE CharKeying(MORSE_CODE[message[i]], unit) )
    IN  Chars[Len(message)]

\* keyed is how far a call has come through expected, its last wait running.
KeyedSoFar(keyed, expected) ==
    /\ Len(keyed) <= Len(expected)
    /\ \A k \in 1..Len(keyed) :
        /\ keyed[k].high = expected[k].high
        /\ IF k < Len(keyed) THEN keyed[k].ms = expected[k].ms
           ELSE keyed[k].ms <= expected[k].ms

\* C7 as stated: a call of sendCWMessage at speed w that is not cancelled keys, with
\* unit = 1200/w ms and in order, one pulse per symbol of every character
\* that has a pattern (one unit for a dot, three for a dash), a gap of one
\* unit between the symbols of a character and of three units after its
\* last symbol, and releases PTT after that; "E" at 20 WPM is 60 ms high and
\* 180 ms low, "A" is 60 ms high, 60 ms low, 180 ms high, 180 ms low.
C7_MorseTiming ==
    \A s \in 1..MaxSessions :
        ~cw[s].cancelled =>
            LET expected == MessageKeying(cw[s].message, 1200 \div cw[s].wpm)
            IN  /\ cw[s].pc \in Waits => KeyedSoFar(cw[s].keyed, expected)
                /\ cw[s].pc \in {"exitSettle", "awaitPttOff", "done"}
                       /\ cw[s].outcome # "notConnected" =>
                      /\ cw[s].keyed = expected
                      /\ cw[s].outcome = "sent"
                /\ cw[s].pc = "done" /\ cw[s].outcome = "sent" =>
                      /\ cw[s].offSent
                      /\ buildCommand(CMD_PTT, <<0, 0>>) \in
                             { sent[n] : n \in 2..Len(sent) }
                /\ (cw[s].message = <<"E">> /\ cw[s].wpm = 20
                        /\ cw[s].pc = "done") =>
                      cw[s].keyed = << [ high |-> TRUE, ms |-> 60 ],
                                       [ high |-> FALSE, ms |-> 180 ] >>

\* C8 as stated: every call of sendCWMessage that has sent PTT-on ends, on
\* every path, with the line forced low, the settle delay, the PTT-off
\* command sent and the PTT flag false: none ends with the line left as it
\* was or without PTT-off sent.
C8_ExitOnEveryPath ==
    \A s \in 1..MaxSessions :
        (cw[s].pc \in {"done", "rejected"} /\ cw[s].onSent) =>
            /\ cw[s].loweredAtExit
            /\ cw[s].offSent

\* C9 as stated: cancelling never shortens a tone: the line that is high
\* when stopCW is called stays high until the duration of the dot or dash has
\* passed, and is low once the keying has stopped.
C9_ToneNeverShortened ==
    [][ /\ (keyLine /\ ~keyLine') => toneLeft = 0
        /\ (\A p \in 1..MaxStops : stops'[p] = "done")
               /\ (\A s \in 1..MaxSessions : cw'[s].pc \in {"idle", "done"})
             => ~keyLine' ]_vars

\* The PTT frames written to the transport, in order: TRUE for PTT-on.
PttWritten ==
    LET ptt == SelectSeq(sent, LAMBDA f :
                   f \in { buildCommand(CMD_PTT, <<0, 1>>),
                           buildCommand(CMD_PTT, <<0, 0>>) })
    IN  [ i \in 1..Len(ptt) |-> ptt[i] = buildCommand(CMD_PTT, <<0, 1>>) ]

\* C28 as stated: the one call of sendCWMessage that has ended, with stopCW
\* either never called or called during the keying and ended too, has written
\* exactly one PTT-on frame and exactly one PTT-off frame, in this order.
C28_OnePttPair ==
    ( /\ cw[1].pc = "done"
      /\ cw[1].onSent
      /\ \A p \in 1..MaxStops :
            \/ stops[p] = "idle"
            \/ stops[p] = "done" /\ cw[1].cancelled )
        => PttWritten = <<TRUE, FALSE>>

(***************************************************************************)
(* setFrequency on what a user may type                                    *)
(***************************************************************************)
\* "abc", "7x", "14.074", "7.03", "1", "60", "0", "100", ".5", "0.999999",
\* "0.9999995", "60.000001", "60.0000004"
FreqInputs ==
    { <<>>, <<97, 98, 99>>, <<7, 120>>, <<1, 4, 46, 0, 7, 4>>,
      <<7, 46, 0, 3>>, <<1>>, <<6, 0>>, <<0>>, <<1, 0, 0>>, <<46, 5>>,
      <<0, 46, 9, 9, 9, 9, 9, 9>>, <<0, 46, 9, 9, 9, 9, 9, 9, 5>>,
      <<6, 0, 46, 0, 0, 0, 0, 0, 1>>, <<6, 0, 46, 0, 0, 0, 0, 0, 0, 4>> }

SetFreq ==
    /\ Len(issued) < MaxIssued
    /\ \E input \in FreqInputs : SetFrequency(input)

SetFreqNext == SetFreq \/ QueryTimer \/ ElapseToDue \/ Disconnect

SpecSetFreq == InitTracker /\ [][SetFreqNext]_vars

\* The input is a decimal number and nothing else.
IsDecimal(input) ==
    /\ \E i \in 1..Len(input) : input[i] \in 0..9
    /\ \A i \in 1..Len(input) : input[i] \in 0..9 \/ input[i] = 46
    /\ Cardinality({ i \in 1..Len(input) : input[i] = 46 }) <= 1

\* The input denotes a frequency of 1,000,000 to 60,000,000 Hz.
DenotesInRange(input) ==
    /\ IsDecimal(input)
    /\ RoundHz(parseFloat(input)) >= 1000000
    /\ RoundHz(parseFloat(input)) <= 60000000

\* The frame is a write-frequency command for 1,000,000 to 60,000,000 Hz.
WritesInRange(frame) ==
    LET f == bcdToFrequency(SubSeq(frame, 6, 10))
    IN  /\ Len(frame) = 11
        /\ f[3] = 0 /\ f[4] = 0
        /\ f[2] * 100000 + f[1] >= 1000000
        /\ f[2] * 100000 + f[1] <= 60000000

\* C11 as stated: for every input that does not denote a frequency within
\* 1,000,000 to 60,000,000 Hz (out of range or not a number), setFrequency
\* writes nothing to the transport and logs an error; a write-frequency
\* command (05) is written only for a frequency in that range.
C11_ValidatedBeforeSend ==
    [][ lastOp' = "setFrequency" =>
            /\ ~DenotesInRange(freqInput') =>
                  /\ sent' = sent
                  /\ issued' = issued
                  /\ logLast' \in { "Please enter a frequency",
                                    "Frequency out of range (1-60 MHz)",
                                    "Invalid frequency format" }
            /\ Len(sent') > Len(sent) =>
                  /\ sent'[Len(sent')][5] = 5
                  /\ WritesInRange(sent'[Len(sent')]) ]_vars

(***************************************************************************)
(* A polled session whose device may go away                               *)
(***************************************************************************)
InitSession ==
    /\ CodecIdle
    /\ TrackerLoaded
    /\ PollingStarted
    /\ LinkInit
    /\ CwIdle
    /\ SessionLoaded
    /\ RxIdle
    /\ wavelog = WavelogDefault

FaultsNext ==
    PollTick \/ QueryTimer \/ ElapseToDue \/ PortLost \/ ReadError
        \/ Disconnect

SpecFaults == InitSession /\ [][FaultsNext]_vars

\* A read or a write on the transport has failed.
TransportFailed ==
    readError \/ \E i \in 1..Len(issued) : issued[i].outcome = "sendError"

\* C12 as stated: once a read in readLoop or a write in sendCommand has
\* failed, the session is no longer connected and the poll interval is
\* cleared, so that no further query is issued; nothing reconnects.
C12_FailureEndsSession ==
    TransportFailed =>
        /\ ~isConnected
        /\ statusPollInterval = NO_TIMER
        /\ \A x \in timeouts : x.fn # "pollTick"

(***************************************************************************)
(* A polled session with the keyer, the PTT button and the radio answering *)
(***************************************************************************)
\* The frames the radio sends in such a session.
ArrivalSamples == FreqResponses

\* The radio sends a frame: its bytes are what reader.read() has to deliver
\* next.
Arrive ==
    /\ Len(arrived) < MaxArrivals
    /\ \E f \in ArrivalSamples :
        /\ wire' = wire \o f
        /\ arrived' = Append(arrived, f)
    /\ lastOp' = "arrive"
    /\ UNCHANGED <<codecVars, trackerVars, wavelog, reports, linkVars, cwVars,
                   pollVars, fetches, closeVars, frameVars, buffer, packets,
                   fedNoise,
                   fedFrame,
                   rxData>>

\* A read that ends inside a frame.
ReadPart == ReadChunk(PartChunk)

PressPTT == TogglePTTWithin(MaxOrderIssued)

PollFirst == PollTickWithin(MaxOrderTicks)

SendOneCW == Len(issued) < MaxOrderIssued /\ SendCWMessage(1, <<"E">>, 0)

OrderNext ==
    PollFirst \/ QueryTimer \/ ElapseToDue \/ PressPTT \/ TogglePTTDone
        \/ SendOneCW \/ CWSendDone \/ CWTimer \/ Arrive \/ ReadPart \/ ReadAll

SpecOrder == InitSession /\ [][OrderNext]_vars

\* The frames of the calls of sendCommand that were not refused, in the order
\* of the calls.
FramesIssued ==
    LET w == SelectSeq(issued, LAMBDA e : e.outcome = "written")
    IN  [ i \in 1..Len(w) |-> buildCommand(w[i].cmd, w[i].data) ]

\* The frequency responses among the packets handed on, in order.
FreqPackets ==
    SelectSeq(packets, LAMBDA d : Len(d) = 11 /\ d[5] = 3)

\* C13: whatever the interleaving of poll timers, keyer and user commands,
\* the frames on the transport are those of the calls of sendCommand in the
\* order of the calls, each one whole; the packets handed to handleResponse
\* are the frames that arrived, in the order of arrival, and the tracker
\* holds the frequency of the latest of them.
C13_InOrder ==
    /\ sent = FramesIssued
    /\ \A i \in 1..Len(sent) :
          /\ sent[i][1] = 254 /\ sent[i][2] = 254
          /\ sent[i][Len(sent[i])] = 253
    /\ Len(packets) <= Len(arrived)
    /\ packets = SubSeq(arrived, 1, Len(packets))
    /\ FreqPackets # <<>> =>
          lastFrequencyHz =
              bcdToFrequency(SubSeq(FreqPackets[Len(FreqPackets)], 6, 10))

\* The keyer's PTT-on, the button's PTT command, a tick's status query, its
\* power-meter query and the keyer's PTT-off went out in the order they were
\* made, and two frequency responses were applied in the order they came.
C13_Witness ==
    /\ Len(issued) = 5
    /\ [ i \in 1..5 |-> issued[i].by ] =
          << "keyer", "togglePTT", "readOperatingStatus", "readPowerMeter",
             "keyer" >>
    /\ Len(sent) = 5
    /\ packets = << Response(CMD_READ_FREQ, frequencyToBCD(Hz14074000)),
                    Response(CMD_READ_FREQ, frequencyToBCD(Hz7030000)) >>
    /\ lastFrequencyHz = Hz7030000

(***************************************************************************)
(* The poll ticks, with the PTT flag moved by status responses             *)
(***************************************************************************)
PollNext ==
    PollTick \/ QueryTimer \/ ElapseToDue \/ ReceiveStatus \/ Disconnect

SpecPoll == InitSession /\ [][PollNext]_vars

MeterQueries == { "readSMeter", "readPowerMeter" }

\* The calls of sendCommand in h made by fn for the tick n.
CallsFor(h, fn, n) ==
    { i \in 1..Len(h) : h[i].by = fn /\ h[i].tick = n }

\* The ms since the last tick, read off the interval while it is pending.
SinceTick(pending) ==
    { POLL_PERIOD_MS - x.wait : x \in { y \in pending : y.fn = "pollTick" } }

WpmRequested == {0, 5, 6, 20, 48, 60}

SendCWAtSpeed ==
    \E message \in CwMessages, field \in WpmRequested :
        SendCWMessage(1, message, field)

SpeedNext ==
    SendCWAtSpeed \/ CWSendDone \/ CWTimer \/ StopCW \/ StopCWResumed
        \/ ElapseToDue

SpecSpeed == InitKeyer /\ [][SpeedNext]_vars

\* min(48, max(6, wpm))
ClampWpm(wpm) == IF wpm < 6 THEN 6 ELSE IF wpm > 48 THEN 48 ELSE wpm

\* C15 as stated: the speed is clamped to 6..48 WPM before the timings are
\* derived, so the first symbol of a call that is not cancelled is keyed for
\* one unit (dot) or three (dash) of 1200 / min(48, max(6, wpm)) ms, a unit of
\* 25 to 200 ms.
C15_UnitClamped ==
    \A s \in 1..MaxSessions :
        (~cw[s].cancelled /\ Len(cw[s].keyed) >= 2 /\ cw[s].keyed[1].high) =>
            LET units == IF MORSE_CODE[cw[s].message[1]][1] = Dot THEN 1
                         ELSE 3
                unit == cw[s].keyed[1].ms \div units
            IN  /\ cw[s].keyed[1].ms = units * (1200 \div ClampWpm(cw[s].wpm))
                /\ unit >= 25
                /\ unit <= 200

(***************************************************************************)
(* buildCommand and parseResponse, on every command byte                   *)
(***************************************************************************)
\* Payloads: none, short ones with the marker and the terminator among
\* their bytes, and the five bytes of a frequency.
FrameDataSamples ==
    UNION { [ 1..k -> {0, 1, EOM, PREAMBLE, 255} ] : k \in 0..MaxFrameData }
    \cup { frequencyToBCD(Hz14074000) }

InitFrame ==
    /\ CodecIdle
    /\ TrackerInit
    /\ LinkInit
    /\ CwIdle
    /\ RxIdle
    /\ wavelog = WavelogDefault
    /\ SessionPolls
    /\ statusPollInterval = NO_TIMER
    /\ framePc = "start"
    /\ frameCmd \in Byte
    /\ frameData \in FrameDataSamples
    /\ frameBytes = <<>>
    /\ frameParsed = NULL

FrameEncode ==
    /\ framePc = "start"
    /\ frameBytes' = buildCommand(frameCmd, frameData)
    /\ framePc' = "encoded"
    /\ UNCHANGED <<frameCmd, frameData, frameParsed>>
    /\ UNCHANGED <<codecVars, trackerVars, rxVars, cwVars, pollVars, arrived,
                   fetches, closeVars, wavelog, reports, linkVars, rxData,
                   lastOp>>

FrameDecode ==
    /\ framePc = "encoded"
    /\ frameParsed' = parseResponse(frameBytes)
    /\ framePc' = "decoded"
    /\ UNCHANGED <<frameCmd, frameData, frameBytes>>
    /\ UNCHANGED <<codecVars, trackerVars, rxVars, cwVars, pollVars, arrived,
                   fetches, closeVars, wavelog, reports, linkVars, rxData,
                   lastOp>>

FrameNext == FrameEncode \/ FrameDecode

SpecFrame == InitFrame /\ [][FrameNext]_vars

\* C16: for every command byte c and payload p, buildCommand gives exactly
\* FE FE 94 E0 c p... FD, and parseResponse of that succeeds and gives back
\* the command c and the payload p.
C16_FrameRoundTrip ==
    /\ framePc # "start" =>
          frameBytes = <<254, 254, 148, 224, frameCmd>> \o frameData \o <<253>>
    /\ framePc = "decoded" =>
          /\ frameParsed # NULL
          /\ frameParsed.cmd = frameCmd
          /\ frameParsed.payload = frameData

\* The command 05 with a payload that holds the terminator and the marker
\* was built and parsed back.
C16_Witness ==
    /\ framePc = "decoded"
    /\ frameCmd = CMD_WRITE_FREQ
    /\ frameData = <<EOM, PREAMBLE>>
    /\ frameBytes = <<254, 254, 148, 224, 5, 253, 254, 253>>
    /\ frameParsed.payload = <<EOM, PREAMBLE>>

(***************************************************************************)
(* readLoop under line noise                                               *)
(***************************************************************************)
\* Runs of stray bytes with no terminator, a terminator with no marker
\* before it, and a frame.
NoiseRuns ==
    { Filler(n, 170) : n \in {BUFFER_KEEP - 1, BUFFER_KEEP + 1, BUFFER_LIMIT + 1} }
    \cup { <<170, 170, 170, 170, 170, EOM>>,
           Response(CMD_READ_MODE, <<3, 1>>) }

\* Noise comes in on the line.
ArriveNoise ==
    /\ Len(arrived) < MaxRuns
    /\ \E q \in NoiseRuns :
        /\ wire' = wire \o q
        /\ arrived' = Append(arrived, q)
    /\ lastOp' = "arrive"
    /\ UNCHANGED <<codecVars, trackerVars, wavelog, reports, linkVars, cwVars,
                   pollVars, fetches, closeVars, frameVars, buffer, packets,
                   fedNoise,
                   fedFrame,
                   rxData>>

NoiseNext == ArriveNoise \/ ReadPart \/ ReadAll

SpecNoise == InitTracker /\ [][NoiseNext]_vars

\* C17: a chunk that yields no frame leaves the buffer cut to its most recent
\* 50 bytes when it would hold more than 100, and whole otherwise; after any
\* chunk the buffer holds at most 100 bytes, terminator or none, the chunk has
\* been taken off the line, and the loop goes on reading.
C17_BufferBounded ==
    [][ lastOp' = "readLoop" =>
          LET value == SubSeq(wire, 1, Len(wire) - Len(wire'))
              all == buffer \o value
          IN  /\ value # <<>>
              /\ wire = value \o wire'
              /\ reading'
              /\ Len(buffer') <= 100
              /\ packets' = packets =>
                    buffer' = IF Len(all) > 100
                              THEN SubSeq(all, Len(all) - 49, Len(all))
                              ELSE all ]_vars

\* Three runs of noise without a terminator, 151 bytes in all, have been
\* read in pieces, and the buffer holds the last 50 of them.
C17_Witness ==
    /\ lastOp = "readLoop"
    /\ wire = <<>>
    /\ arrived = << Filler(49, 170), Filler(51, 170), Filler(51, 170) >>
    /\ packets = <<>>
    /\ Len(buffer) = 50

(***************************************************************************)
(* Frequency and mode responses with payloads of every length              *)
(***************************************************************************)
\* Payloads of frequency responses: two frequencies, one of them with a
\* byte more, ten different digits, and each of these cut short.
FreqPayloads ==
    LET full == { frequencyToBCD(Hz14074000), frequencyToBCD(Hz7030000),
                  frequencyToBCD(Hz7030000) \o <<1>>,
                  <<18, 52, 86, 120, 144>> }
    IN  full \cup { SubSeq(p, 1, k) : p \in full, k \in 0..4 }

ModePayloads == { <<>>, <<1>>, <<3, 1>>, <<7>>, <<255, 2>> }

TrackedResponses ==
    { Response(CMD_READ_FREQ, p) : p \in FreqPayloads }
    \cup { Response(CMD_READ_MODE, p) : p \in ModePayloads }

ReceiveTracked ==
    /\ Len(reports) < MaxReports
    /\ \E d \in TrackedResponses : Receive(d)

TrackNext == ReceiveTracked \/ ElapseToDue \/ WavelogTimer

SpecTrack == InitTelemetry /\ [][TrackNext]_vars

\* The number five BCD bytes stand for, lowest pair of digits first.
BcdValue(p) ==
    LET tens(i) == p[i] \div 16
        ones(i) == p[i] % 16
    IN  << ones(1) + 10 * tens(1) + 100 * ones(2) + 1000 * tens(2)
              + 10000 * ones(3),
           tens(3) + 10 * ones(4) + 100 * tens(4) + 1000 * ones(5)
              + 10000 * tens(5),
           0, 0 >>

\* onRadioStateChanged has been called in this step.
Emitted == lastChange' # lastChange

\* C20: a frequency response with 5 payload bytes or more sets the tracked
\* frequency to the BCD value of the first 5 and emits a change event if and
\* only if a frequency was known and differs from it; a mode response with a
\* payload byte or more does the same with the mode code; either with a
\* shorter payload leaves the tracked values, the displays and the timers as
\* they were and emits no event.
C20_TrackedValues ==
    [][ lastOp' = "handleResponse" =>
          LET cmd == rxData'[5]
              payload == SubSeq(rxData', 6, Len(rxData') - 1)
          IN  /\ (cmd = 3 /\ Len(payload) >= 5) =>
                    /\ lastFrequencyHz' = BcdValue(payload)
                    /\ lastModeCode' = lastModeCode
                    /\ Emitted <=> ( /\ lastFrequencyHz # NULL
                                     /\ lastFrequencyHz # BcdValue(payload) )
              /\ (cmd = 4 /\ Len(payload) >= 1) =>
                    /\ lastModeCode' = payload[1]
                    /\ lastFrequencyHz' = lastFrequencyHz
                    /\ Emitted <=> ( /\ lastModeCode # NO_MODE
                                     /\ lastModeCode # payload[1] )
              /\ ((cmd = 3 /\ Len(payload) < 5) \/ (cmd = 4 /\ payload = <<>>))
                    => /\ ~Emitted
                       /\ UNCHANGED <<lastFrequencyHz, lastModeCode,
                                      freqDisplay, modeDisplay, timeouts,
                                      wavelogDebounceTimer>> ]_vars

\* A frequency response of 4 payload bytes has come after two different
\* frequencies and a mode: the frequency is still the second one.
C20_Witness ==
    /\ lastOp = "handleResponse"
    /\ rxData = Response(CMD_READ_FREQ, <<0, 64, 7, 20>>)
    /\ lastFrequencyHz = Hz7030000
    /\ lastModeCode = 255
    /\ lastChange.seen
    /\ lastChange.frequency = Hz7030000

(***************************************************************************)
(* Operating-status responses with every kind of payload                   *)
(***************************************************************************)
StatusPayloads ==
    { <<sub, b>> : sub \in {0, 1, 2}, b \in {0, 1, 2, 255} }
    \cup { <<>>, <<0>>, <<1>>, <<0, 1, 5>>, <<0, 0, 1>> }

ReceiveAnyStatus ==
    \E p \in StatusPayloads : Receive(Response(CMD_READ_OPERATING_STATUS, p))

StatusNext == ReceiveAnyStatus \/ TogglePTT \/ TogglePTTDone

SpecStatus == InitTracker /\ [][StatusNext]_vars

\* handleResponse has just shown and logged a change of the PTT flag.
StatusEvent == logLast' \in {"RX -> TX (detected)", "TX -> RX"}

\* C21: a 1C response with sub-command 00 and state byte 01 leaves the PTT
\* flag true, with state byte 00 false; the status event is emitted only when
\* the flag changes, and then it is; a 1C response with another sub-command
\* or fewer than 2 payload bytes leaves the flag as it was.
C21_StatusSetsPtt ==
    [][ (lastOp' = "handleResponse" /\ ~InvalidFrame(rxData')
            /\ rxData'[5] = 28) =>
          LET payload == SubSeq(rxData', 6, Len(rxData') - 1)
              status == Len(payload) >= 2 /\ payload[1] = 0
          IN  /\ (status /\ payload[2] = 1) => pttActive'
              /\ (status /\ payload[2] = 0) => ~pttActive'
              /\ StatusEvent <=> pttActive' # pttActive
              /\ ~status => pttActive' = pttActive ]_vars

\* The radio reports transmitting a second time: the flag is true as before
\* and nothing but the received packet is logged.
C21_Witness ==
    /\ lastOp = "handleResponse"
    /\ rxData = Response(CMD_READ_OPERATING_STATUS, <<0, 1>>)
    /\ pttActive
    /\ pttCalls = <<>>
    /\ issued = <<>>
    /\ logLast = "RX"

(***************************************************************************)
(* Acknowledge, reject and frames with other command codes                 *)
(***************************************************************************)
\* Command codes handleResponse has no branch for, CMD_SEND_CW among them
\* (its branch only writes to the console).
OtherCommands == {CMD_WRITE_FREQ, CMD_SEND_CW, 255}

UnhandledResponses ==
    { Response(c, p) : c \in {CMD_ACK, CMD_NAK} \cup OtherCommands,
                       p \in { <<>>, <<0, 1>>, <<0, 0, 3, 7, 0>> } }

ReceiveUnhandled == \E d \in UnhandledResponses : Receive(d)

ReceiveHandled ==
    \E d \in FreqResponses \cup ModeResponses \cup StatusResponses : Receive(d)

IgnoredNext ==
    ReceiveUnhandled \/ ReceiveHandled \/ PressPTT \/ TogglePTTDone

SpecIgnored == InitTracker /\ [][IgnoredNext]_vars

\* C23: an acknowledge frame, a reject frame and a frame whose command code
\* is none of 03, 04, 15, 1C leave frequency, mode, PTT flag and meter as
\* they were, write nothing to the port and set no timer.
C23_IgnoredFrames ==
    [][ (lastOp' = "handleResponse" /\ ~InvalidFrame(rxData')
            /\ rxData'[5] \notin {3, 4, 21, 28}) =>
          /\ radioState' = radioState
          /\ UNCHANGED <<freqDisplay, modeDisplay>>
          /\ sent' = sent
          /\ issued' = issued
          /\ timeouts' = timeouts ]_vars

\* A reject frame has come after a PTT command was written, frequency and
\* mode known: the one command is all that was written.
C23_Witness ==
    /\ lastOp = "handleResponse"
    /\ rxData = Response(CMD_NAK, <<>>)
    /\ logLast = "Command rejected (NAK)"
    /\ lastFrequencyHz = Hz14074000
    /\ lastModeCode = 3
    /\ Len(sent) = 1
    /\ Len(issued) = 1

(***************************************************************************)
(* The Wavelog notifier with the answers to its POSTs                      *)
(***************************************************************************)
ReportNext ==
    ReceiveFreq \/ ReceiveMode \/ ElapseToDue \/ WavelogTimer \/ FetchDone

SpecReport == InitTelemetry /\ [][ReportNext]_vars

\* C24: a POST that fails, by its status or by an exception, leaves one line
\* in the log and nothing else: no timer is set, no report goes out; and a
\* report goes out only from the debounce timer of a change event that came
\* after the report before it.
C24_FailureOnlyLogged ==
    [][ /\ (lastOp' = "fetchDone"
              /\ logLast' \in {"Wavelog update failed", "Wavelog error"}) =>
            /\ timeouts' = timeouts
            /\ wavelogDebounceTimer' = wavelogDebounceTimer
            /\ reports' = reports
            /\ fetches' = fetches - 1
        /\ reports' # reports =>
            /\ lastOp' = "wavelogTimer"
            /\ Len(reports') = Len(reports) + 1
            /\ lastChange.seen
            /\ lastChange.n = Len(reports) ]_vars

\* The one report was refused by the server: no timer is pending and no
\* second report has gone out.
C24_Witness ==
    /\ lastOp = "fetchDone"
    /\ logLast = "Wavelog update failed"
    /\ Len(reports) = 1
    /\ fetches = 0
    /\ timeouts = {}
    /\ wavelogDebounceTimer = NO_TIMER

(***************************************************************************)
(* Closing the session step by step, and opening the next one              *)
(***************************************************************************)
CloseNext ==
    PollFirst \/ QueryTimer \/ ElapseToDue \/ DisconnectBegin
        \/ DisconnectResume \/ Connect \/ InitialRead

SpecClose == InitSession /\ [][CloseNext]_vars

\* The place of a step in the order of closing.
CloseRank(step) ==
    CASE step = "stopStatusPolling" -> 1
      [] step = "reader.cancel" -> 2
      [] step = "writer.close" -> 3
      [] step = "port.close" -> 4
      [] OTHER -> 5

WordMessages == { <<"E", " ", "E">>, <<"T", " ", "A">> }

SendWordsAmong(n) ==
    \E s \in 1..n, message \in WordMessages, field \in WpmFieldSamples :
        SendCWMessage(s, message, field)

SendWords == SendWordsAmong(MaxSessions)

SendWordsAlone == SendWordsAmong(MaxAlone)

WordNext == SendWords \/ CWSendDone \/ CWTimer \/ ElapseToDue

SpecWord == InitKeyer /\ [][WordNext]_vars

WordAloneNext == SendWordsAlone \/ CWSendDone \/ CWTimer \/ ElapseToDue

SpecWordAlone == InitKeyer /\ [][WordAloneNext]_vars

\* The first pulse noted after place from, or 0 for none.
NextPulse(keyed, from) ==
    LET later == { k \in (from + 1)..Len(keyed) : keyed[k].high }
    IN  IF later = {} THEN 0 ELSE CHOOSE k \in later : \A j \in later : k <= j

\* The time noted from place a to place b.
RECURSIVE SumMs(_, _, _)
SumMs(keyed, a, b) ==
    IF a > b THEN 0 ELSE keyed[a].ms + SumMs(keyed, a + 1, b)

\* C26 as stated: in a call that is not cancelled and has sent a character,
\* one space and a character, the line is low for exactly 7 units from the
\* end of the last symbol of the first character to the start of the first
\* symbol of the second, and it is not raised in between.
C26_WordGap ==
    \A s \in 1..MaxSessions :
        ( /\ ~cw[s].cancelled
          /\ cw[s].pc = "done"
          /\ cw[s].outcome = "sent"
          /\ cw[s].message \in WordMessages ) =>
            LET keyed == cw[s].keyed
                unit == 1200 \div cw[s].wpm
                from == 2 * Len(MORSE_CODE[cw[s].message[1]])
                pulse == NextPulse(keyed, from)
            IN  /\ from <= Len(keyed)
                /\ ~keyed[from].high
                /\ pulse # 0
                /\ SumMs(keyed, from, pulse - 1) = 7 * unit

(***************************************************************************)
(* The Wavelog notifier with the settings saved and reset while it runs    *)
(***************************************************************************)
\* saveSettings, the address field holding 94 or something that is no
\* address: the three Wavelog fields are taken over, or nothing is.
SaveSettings ==
    /\ \E valid \in BOOLEAN, w \in WavelogSettings :
        IF valid
        THEN /\ wavelog' = w
             /\ logLast' = "Settings saved"
        ELSE /\ wavelog' = wavelog
             /\ logLast' = "Invalid CI-V address"
    /\ lastOp' = "saveSettings"
    /\ UNCHANGED <<codecVars, sessionVars, rxVars, cwVars,
                   lastFrequencyHz, lastModeCode, pttActive, freqDisplay,
                   modeDisplay, meter, wavelogDebounceTimer, timeouts,
                   lastChange, sinceChange, reports, linkVars, rxData>>

\* resetSettings: telemetry off, no URL, no key.
ResetSettings ==
    /\ wavelog' = WavelogDefault
    /\ logLast' = "Settings reset to defaults"
    /\ lastOp' = "resetSettings"
    /\ UNCHANGED <<codecVars, sessionVars, rxVars, cwVars,
                   lastFrequencyHz, lastModeCode, pttActive, freqDisplay,
                   modeDisplay, meter, wavelogDebounceTimer, timeouts,
                   lastChange, sinceChange, reports, linkVars, rxData>>

SettingsNext ==
    ReceiveFreq \/ ReceiveMode \/ ElapseToDue \/ WavelogTimer
        \/ SaveSettings \/ ResetSettings

SpecSettings == InitTelemetry /\ [][SettingsNext]_vars

\* The pending debounce timeouts.
WavelogTimers == { x \in timeouts : x.fn = "wavelog" }

\* C29: a report goes out only when the debounce timer fires with telemetry
\* enabled and its URL and key set at that moment, and it carries the
\* frequency and the mode last read from the radio, both of them read; at
\* most one debounce timer is pending at any time.
C29_ReportsReadValues ==
    [][ /\ reports' # reports =>
            /\ lastOp' = "wavelogTimer"
            /\ Configured
            /\ lastFrequencyHz # NULL
            /\ lastModeCode # NO_MODE
            /\ reports' = Append(reports,
                              [ frequency |-> lastFrequencyHz,
                                mode |-> WavelogModeName(lastModeCode),
                                after |-> sinceChange ])
        /\ (lastOp' = "wavelogTimer" /\ ~Configured) => reports' = reports
        /\ Cardinality(WavelogTimers') <= 1 ]_vars

\* Telemetry was switched on while the timer of a change event was running:
\* the timer has fired and its report has gone out with the pair read.
C29_Witness ==
    /\ lastOp = "wavelogTimer"
    /\ Configured
    /\ logLast = "Settings saved"
    /\ Len(reports) = 1
    /\ reports[1].frequency = lastFrequencyHz
    /\ lastFrequencyHz # NULL
    /\ lastModeCode # NO_MODE
    /\ WavelogTimers = {}

(***************************************************************************)
(* The level of the keying line outside the tones                          *)
(***************************************************************************)
\* The calls of sendCWMessage that are between their keyDown and the keyUp
\* that follows it.
InTone == { s \in 1..MaxSessions : cw[s].pc = "tone" }

\* The calls of sendCWMessage that have begun and not ended.
ActiveSessions ==
    { s \in 1..MaxSessions : cw[s].pc \notin {"idle", "done", "rejected"} }

\* C30: with the port open the keying line is high only while a call of
\* sendCWMessage is between its keyDown and the matching keyUp; it is low
\* whenever no call is active, and so after a call has ended normally, by
\* stopCW or by an error during keying.
C30_LineLowWhenIdle ==
    port =>
        /\ keyLine => InTone # {}
        /\ ActiveSessions = {} => ~keyLine

=============================================================================
